---------------------------- MODULE Spec2Model ----------------------------
(***************************************************************************)
(* A model of the InkTranslator backend: the pipeline orchestrator         *)
(* (services/orchestrator.py), the translation fallback engine             *)
(* (services/translate/*.py) and the string functions they rest on.        *)
(*                                                                         *)
(* A Python str is a sequence of one-character strings; None is the        *)
(* one-element sequence NoneVal, which no str equals.                      *)
(***************************************************************************)
EXTENDS Integers, Sequences, FiniteSets, TLC

(***************************************************************************)
(* Bounds of the model.                                                    *)
(***************************************************************************)
MaxTextLen == 2
MaxBoxes == 2
MaxCalls == 2
MaxBatch == 2
MaxTime == 40
MaxFaults == 2
MaxRuns == 2
TimeStep == 20
MaxPieces == 3
MaxMergeBoxes == 3
MaxMerges == 2
MaxWrapLen == 4
MaxSizedLen == 3
MaxLayouts == 2
MaxColumnChars == 5
MaxLayoutBoxes == 3
MaxRequests == 3

(***************************************************************************)
(* Characters and the character classes Python's re and str use.           *)
(***************************************************************************)
NoneVal == <<"<None>">>

WS == {" "}
Punct == {".", ",", ";", "!", "?"}
Digit == {"0", "1", "2", "3", "4", "5", "6", "7", "8", "9"}
Lowers ==
  <<"a", "b", "c", "d", "e", "f", "g", "h", "i", "j", "k", "l", "m",
    "n", "o", "p", "q", "r", "s", "t", "u", "v", "w", "x", "y", "z">>
Uppers ==
  <<"A", "B", "C", "D", "E", "F", "G", "H", "I", "J", "K", "L", "M",
    "N", "O", "P", "Q", "R", "S", "T", "U", "V", "W", "X", "Y", "Z">>
LowerCh == {Lowers[i] : i \in 1..Len(Lowers)}
UpperCh == {Uppers[i] : i \in 1..Len(Uppers)}
WordCh == LowerCh \cup UpperCh \cup Digit \cup {"_"}

isalnum(c) == c \in LowerCh \cup UpperCh \cup Digit

isupper(c) == c \in UpperCh

lower(c) ==
  IF c \in UpperCh THEN Lowers[CHOOSE i \in 1..Len(Uppers) : Uppers[i] = c] ELSE c

upper(c) ==
  IF c \in LowerCh THEN Uppers[CHOOSE i \in 1..Len(Lowers) : Lowers[i] = c] ELSE c

LowerStr(s) == [i \in 1..Len(s) |-> lower(s[i])]

DigitVal(c) ==
  CASE c = "0" -> 0 [] c = "1" -> 1 [] c = "2" -> 2 [] c = "3" -> 3
    [] c = "4" -> 4 [] c = "5" -> 5 [] c = "6" -> 6 [] c = "7" -> 7
    [] c = "8" -> 8 [] c = "9" -> 9

DigitCh(n) == <<"0", "1", "2", "3", "4", "5", "6", "7", "8", "9">>[n + 1]

RECURSIVE IntOf(_)
IntOf(ds) ==
  IF ds = <<>> THEN 0
  ELSE 10 * IntOf(SubSeq(ds, 1, Len(ds) - 1)) + DigitVal(ds[Len(ds)])

RECURSIVE StrOfInt(_)
StrOfInt(n) ==
  IF n < 10 THEN <<DigitCh(n)>> ELSE Append(StrOfInt(n \div 10), DigitCh(n % 10))

RECURSIVE Concat(_)
Concat(ss) == IF ss = <<>> THEN <<>> ELSE Head(ss) \o Concat(Tail(ss))

RECURSIVE Join(_, _)
Join(sep, ss) ==
  IF ss = <<>> THEN <<>>
  ELSE IF Len(ss) = 1 THEN ss[1]
  ELSE ss[1] \o sep \o Join(sep, Tail(ss))

Drop(s, n) == SubSeq(s, n + 1, Len(s))

StartsWithAt(s, i, pat) ==
  /\ i + Len(pat) - 1 <= Len(s)
  /\ \A k \in 1..Len(pat) : s[i + k - 1] = pat[k]

Contains(s, pat) == \E i \in 1..(Len(s) + 1) : StartsWithAt(s, i, pat)

RECURSIVE LStrip(_, _)
LStrip(s, cs) == IF s # <<>> /\ Head(s) \in cs THEN LStrip(Tail(s), cs) ELSE s

RECURSIVE RStrip(_, _)
RStrip(s, cs) ==
  IF s # <<>> /\ s[Len(s)] \in cs THEN RStrip(SubSeq(s, 1, Len(s) - 1), cs) ELSE s

\* str.strip() and str.strip('.')
StripChars(s, cs) == RStrip(LStrip(s, cs), cs)

strip(s) == StripChars(s, WS)

\* re.sub(r'\s+', '', text)
RemoveWS(s) == SelectSeq(s, LAMBDA c : c \notin WS)

\* Python truthiness of an Optional[str]
Truthy(s) == s # NoneVal /\ s # <<>>

(***************************************************************************)
(* services/translate/base.py: the module-level functions.                 *)
(***************************************************************************)
SUPPORTED_LANGUAGES ==
  {"sim_chinese", "trad_chinese", "korean", "vietnamese", "japanese", "english"}

LEGACY_LANGUAGE_MAP ==
  [JPN |-> "japanese", ENG |-> "english", KOR |-> "korean",
   VIN |-> "vietnamese", CHI |-> "sim_chinese", CHT |-> "trad_chinese"]

normalize_language_code(lang_code) ==
  IF lang_code \in DOMAIN LEGACY_LANGUAGE_MAP
  THEN LEGACY_LANGUAGE_MAP[lang_code]
  ELSE lang_code

AlnumCount(s) == Len(SelectSeq(s, isalnum))

\* alphanumeric_count < len(cleaned) * 0.3, in tenths
is_valuable_text(text) ==
  IF ~Truthy(text) \/ strip(text) = <<>> THEN FALSE
  ELSE LET cleaned == RemoveWS(text)
       IN IF Len(cleaned) < 2 THEN FALSE
          ELSE IF 10 * AlnumCount(cleaned) < 3 * Len(cleaned) THEN FALSE
          ELSE TRUE

\* sequence * repeats
RECURSIVE Repeat(_, _)
Repeat(s, n) == IF n <= 0 THEN <<>> ELSE s \o Repeat(s, n - 1)

RECURSIVE RepSeqFrom(_, _)
RepSeqFrom(text, seq_len) ==
  IF seq_len > Len(text) \div 2 THEN text
  ELSE LET sequence == SubSeq(text, 1, seq_len)
           repeats == Len(text) \div seq_len
       IN IF Repeat(sequence, repeats) = SubSeq(text, 1, repeats * seq_len)
          THEN sequence
          ELSE RepSeqFrom(text, seq_len + 1)

repeating_sequence(text) == IF text = <<>> THEN <<>> ELSE RepSeqFrom(text, 1)

\* the last index j >= i with s[i..j] all in cs (i - 1 when s[i] is not in cs)
RECURSIVE RunEnd(_, _, _)
RunEnd(s, i, cs) ==
  IF i <= Len(s) /\ s[i] \in cs THEN RunEnd(s, i + 1, cs) ELSE i - 1

\* re.sub(r'\s+', ' ', translation)
RECURSIVE SubWhitespace(_, _)
SubWhitespace(s, i) ==
  IF i > Len(s) THEN <<>>
  ELSE IF s[i] \in WS
       THEN <<" ">> \o SubWhitespace(s, RunEnd(s, i, WS) + 1)
       ELSE <<s[i]>> \o SubWhitespace(s, i + 1)

\* re.sub(r'(?<![.,;!?])([.,;!?])(?=\w)', r'\1 ', translation)
RECURSIVE SubPunctWord(_, _)
SubPunctWord(s, i) ==
  IF i > Len(s) THEN <<>>
  ELSE IF /\ s[i] \in Punct
          /\ (i = 1 \/ s[i - 1] \notin Punct)
          /\ i < Len(s) /\ s[i + 1] \in WordCh
       THEN <<s[i], " ">> \o SubPunctWord(s, i + 1)
       ELSE <<s[i]>> \o SubPunctWord(s, i + 1)

\* re.sub(r'([.,;!?])\s+(?=[.,;!?]|$)', r'\1', translation)
RECURSIVE SubPunctSpace(_, _)
SubPunctSpace(s, i) ==
  IF i > Len(s) THEN <<>>
  ELSE LET j == RunEnd(s, i + 1, WS)
       IN IF /\ s[i] \in Punct
             /\ j > i
             /\ (j = Len(s) \/ s[j + 1] \in Punct)
          THEN <<s[i]>> \o SubPunctSpace(s, j + 1)
          ELSE <<s[i]>> \o SubPunctSpace(s, i + 1)

\* re.sub(r'(?<=[.,;!?\w])\s+([.,;!?])', r'\1', translation)
RECURSIVE SubSpacePunct(_, _)
SubSpacePunct(s, i) ==
  IF i > Len(s) THEN <<>>
  ELSE LET j == RunEnd(s, i, WS)
       IN IF /\ j >= i
             /\ i > 1 /\ s[i - 1] \in Punct \cup WordCh
             /\ j < Len(s) /\ s[j + 1] \in Punct
          THEN <<s[j + 1]>> \o SubSpacePunct(s, j + 2)
          ELSE <<s[i]>> \o SubSpacePunct(s, i + 1)

\* re.sub(r'((?:\s|^)\.+)\s+(?=\w)', r'\1', translation)
RECURSIVE SubEllipsis(_, _)
SubEllipsis(s, i) ==
  IF i > Len(s) THEN <<>>
  ELSE LET d0 == IF s[i] \in WS THEN i + 1 ELSE IF i = 1 THEN 1 ELSE 0
           d1 == IF d0 = 0 THEN -1 ELSE RunEnd(s, d0, {"."})
           w1 == IF d0 = 0 THEN -1 ELSE RunEnd(s, d1 + 1, WS)
       IN IF /\ d0 > 0
             /\ d1 >= d0
             /\ w1 > d1
             /\ w1 < Len(s) /\ s[w1 + 1] \in WordCh
          THEN SubSeq(s, i, d1) \o SubEllipsis(s, w1 + 1)
          ELSE <<s[i]>> \o SubEllipsis(s, i + 1)

Min(a, b) == IF a < b THEN a ELSE b
Max(a, b) == IF a > b THEN a ELSE b

\* BaseTranslator._clean_translation_output
_clean_translation_output(query, translation) ==
  IF ~Truthy(query) \/ ~Truthy(translation) THEN <<>>
  ELSE LET t1 == SubWhitespace(translation, 1)
           t2 == SubPunctWord(t1, 1)
           t3 == SubPunctSpace(t2, 1)
           t4 == SubSpacePunct(t3, 1)
           t5 == SubEllipsis(t4, 1)
           seq == repeating_sequence(LowerStr(t5))
           rebuilt == Repeat(seq, Max(Len(query) \div Len(seq), 1))
           t6 == IF Len(t5) < Len(query) /\ 2 * Len(seq) < Len(t5)
                 THEN [i \in 1..Min(Len(rebuilt), Len(query)) |->
                         IF isupper(query[i]) THEN upper(rebuilt[i]) ELSE rebuilt[i]]
                 ELSE t5
       IN strip(t6)

(***************************************************************************)
(* The translators: DeepLTranslator, GoogleTranslator, and Custom, which   *)
(* stands for any other subclass of BaseTranslator: it keeps the base      *)
(* class's retry and rate-limit settings and its _translate is free.       *)
(***************************************************************************)
Providers == {"DeepL", "Google", "Custom"}

_LANGUAGE_CODE_MAP(p) ==
  IF p = "DeepL"
  THEN {"sim_chinese", "trad_chinese", "korean", "japanese", "english"}
  ELSE {"sim_chinese", "trad_chinese", "korean", "vietnamese", "japanese", "english"}

DeepL_MAX_REQUESTS_PER_MINUTE == 3
Google_MAX_REQUESTS_PER_MINUTE == 3
Base_MAX_REQUESTS_PER_MINUTE == -1
DeepL_INVALID_REPEAT_COUNT == 0
Google_INVALID_REPEAT_COUNT == 1
Base_INVALID_REPEAT_COUNT == 0

_MAX_REQUESTS_PER_MINUTE(p) ==
  CASE p = "DeepL" -> DeepL_MAX_REQUESTS_PER_MINUTE
    [] p = "Google" -> Google_MAX_REQUESTS_PER_MINUTE
    [] OTHER -> Base_MAX_REQUESTS_PER_MINUTE

_INVALID_REPEAT_COUNT(p) ==
  CASE p = "DeepL" -> DeepL_INVALID_REPEAT_COUNT
    [] p = "Google" -> Google_INVALID_REPEAT_COUNT
    [] OTHER -> Base_INVALID_REPEAT_COUNT

\* min_interval = 60.0 / self._MAX_REQUESTS_PER_MINUTE, in seconds
min_interval(p) == 60 \div _MAX_REQUESTS_PER_MINUTE(p)

\* BaseTranslator.supports_languages with DeepLTranslator's override
supports_languages(p, from_lang, to_lang) ==
  IF p = "DeepL" /\ (from_lang = "VIN" \/ to_lang = "VIN") THEN FALSE
  ELSE /\ normalize_language_code(from_lang) \in _LANGUAGE_CODE_MAP(p)
       /\ normalize_language_code(to_lang) \in _LANGUAGE_CODE_MAP(p)

CharSet(s) == {s[i] : i \in 1..Len(s)}

Base_is_translation_invalid(query, translation) ==
  IF ~Truthy(translation) /\ Truthy(query) THEN TRUE
  ELSE IF ~Truthy(query) \/ ~Truthy(translation) THEN FALSE
  ELSE /\ Cardinality(CharSet(query)) > 6
       /\ Cardinality(CharSet(translation)) < 6
       /\ 4 * Cardinality(CharSet(translation)) < Len(translation)

error_patterns ==
  { <<"t","r","a","n","s","l","a","t","i","o","n"," ","e","r","r","o","r">>,
    <<"s","e","r","v","i","c","e"," ","u","n","a","v","a","i","l","a","b","l","e">>,
    <<"q","u","o","t","a"," ","e","x","c","e","e","d","e","d">> }

\* GoogleTranslator._is_translation_invalid; the other classes use the base's
_is_translation_invalid(p, query, translation) ==
  IF Base_is_translation_invalid(query, translation) THEN TRUE
  ELSE IF p = "Google" /\ Truthy(translation) /\ Truthy(query)
       THEN \/ LowerStr(strip(translation)) = LowerStr(strip(query))
            \/ \E pat \in error_patterns : Contains(LowerStr(translation), pat)
       ELSE FALSE

\* len(query.split())
RECURSIVE WordCount(_, _)
WordCount(s, i) ==
  IF i > Len(s) THEN 0
  ELSE IF s[i] \in WS THEN WordCount(s, i + 1)
  ELSE 1 + WordCount(s, RunEnd(s, i, {c \in CharSet(s) : c \notin WS}) + 1)

\* GoogleTranslator._modify_invalid_translation_query; the base returns query
_modify_invalid_translation_query(p, query) ==
  IF p = "Google"
  THEN IF WordCount(query, 1) = 1
       THEN <<"W", "o", "r", "d", ":", " ">> \o query
       ELSE <<"T", "e", "x", "t", ":", " ">> \o query
  ELSE query

(***************************************************************************)
(* The state.                                                              *)
(***************************************************************************)
VARIABLES
  now,              \* time.time(), in seconds
  deepl_api_key,    \* TranslationManager.deepl_api_key is set
  initialized,      \* TranslationManager._initialized
  translators,      \* TranslationManager.translators, in priority order
  last_request_ts,  \* BaseTranslator._last_request_ts, per translator
  request_count,    \* BaseTranslator.request_count, per translator
  quota_exceeded,   \* DeepLTranslator.quota_exceeded
  auth_failed,      \* DeepLTranslator.auth_failed
  rate_limited,     \* GoogleTranslator.rate_limited
  tasks,            \* the translate coroutines of the call in progress
  call,             \* the call in progress on the translation API, its result
  ncalls,           \* calls made so far
  nfaults,          \* answers of the services that were not a translation
  pc,               \* process_manga_translation: where the run is
  status_callback,  \* a progress sink is attached
  sink,             \* the stages the progress sink has received
  text_boxes,       \* the run's text boxes
  translated_combined, \* what translation_manager.translate returned
  request,          \* the run's source and target language
  box,              \* the box the inpainting or rendering loop is at
  erased,           \* indices of the boxes erased from the image
  rendered,         \* indices of the boxes drawn onto the image
  inpaint_raised,   \* indices of the boxes whose inpainting raised
  render_raised,    \* indices of the boxes whose rendering raised
  error,            \* the exception the run raised
  nruns,            \* runs started so far
  ocr,              \* _merge_nearby_boxes: its boxes, threshold and outcome
  layout,           \* the calls made on the font and layout code, their results
  processing_status, \* routes/routers/translation.py: processing_status
  requests,         \* the translate_manga requests received
  background_tasks  \* the cleanup_status tasks added to BackgroundTasks

tmVars ==
  <<now, deepl_api_key, initialized, translators, last_request_ts, request_count,
    quota_exceeded, auth_failed, rate_limited, tasks, call, ncalls, nfaults>>

runVars ==
  <<pc, status_callback, sink, text_boxes, translated_combined, request, box,
    erased, rendered, inpaint_raised, render_raised, error, nruns, ocr,
    layout, processing_status, requests, background_tasks>>

webVars == <<layout, processing_status, requests, background_tasks>>

pipelineVars ==
  <<pc, status_callback, sink, text_boxes, translated_combined, request, box,
    erased, rendered, inpaint_raised, render_raised, error, nruns, ocr>>

vars == <<tmVars, runVars>>

\* no call of _merge_nearby_boxes yet
NoMerge == [boxes |-> <<>>, threshold |-> 0, given |-> <<>>, raised |-> "", merges |-> 0]

\* the session ids a client sends; processing_status has no entry for a
\* session id that maps to Absent
Sessions == {"s1", "s2"}

Absent == "<absent>"

\* no call on the layout code, no request received
WebIdle ==
  /\ layout = <<>>
  /\ processing_status = [s \in Sessions |-> Absent]
  /\ requests = <<>>
  /\ background_tasks = <<>>

(***************************************************************************)
(* One translate coroutine.  The operators below run the code from one     *)
(* suspension point (an await that can yield) to the next.  They thread a  *)
(* record w: the coroutine tk and the translator fields it reads and       *)
(* writes.                                                                 *)
(***************************************************************************)
World(tk) ==
  [tk |-> tk, lts |-> last_request_ts, rc |-> request_count,
   qe |-> quota_exceeded, af |-> auth_failed, rl |-> rate_limited,
   trs |-> translators]

NewTask(kind, p, queries, from_lang, to_lang, startpc) ==
  [kind |-> kind, queries |-> queries, from_lang |-> from_lang, to_lang |-> to_lang,
   pc |-> startpc, ti |-> 1, p |-> p,
   final_translations |-> <<>>, query_indices |-> <<>>,
   queries_to_translate |-> <<>>, translations |-> <<>>,
   untranslated_indices |-> <<>>, attempt |-> 0, k |-> 0, acc |-> <<>>,
   wake |-> 0, result |-> NoneVal, raised |-> "", tried |-> <<>>, id |-> 0,
   ret |-> <<>>, norm_from |-> from_lang, norm_to |-> to_lang, sent |-> <<>>,
   results |-> <<>>]

\* the coroutine returns or raises: its local variables are gone
Finish(w, result, raised) ==
  [w EXCEPT !.tk = [NewTask(@.kind, "", @.queries, @.from_lang, @.to_lang, "done")
                      EXCEPT !.id = w.tk.id, !.tried = w.tk.tried, !.sent = w.tk.sent,
                             !.results = w.tk.results,
                             !.result = result, !.raised = raised]]

\* DeepLTranslator.is_available, GoogleTranslator.is_available
is_available(p, w) ==
  IF p = "DeepL" THEN ~w.qe /\ ~w.af ELSE ~w.rl

\* TranslationManager._validate_languages raises ValueError
from_to_invalid(from_lang, to_lang) ==
  from_lang \notin SUPPORTED_LANGUAGES \/ to_lang \notin SUPPORTED_LANGUAGES

\* TranslationManager.translate, were it to go to its translators also when
\* no translation is needed
ManagerTranslateAlways(w) ==
  LET tk == w.tk
      text == tk.queries[1]
  IN IF ~Truthy(text) \/ strip(text) = <<>> THEN Finish(w, text, "")
     ELSE IF from_to_invalid(tk.from_lang, tk.to_lang)
          THEN Finish(w, NoneVal, "ValueError")
          ELSE [w EXCEPT !.tk.pc = "m_select"]

\* TranslationManager.translate, were it to forget the DeepL quota error of
\* the calls before it
ManagerTranslateForgets(w) ==
  LET tk == w.tk
      text == tk.queries[1]
  IN IF ~Truthy(text) \/ strip(text) = <<>> THEN Finish(w, text, "")
     ELSE IF from_to_invalid(tk.from_lang, tk.to_lang)
          THEN Finish(w, NoneVal, "ValueError")
          ELSE IF tk.from_lang = tk.to_lang THEN Finish(w, text, "")
          ELSE [w EXCEPT !.tk.pc = "m_select", !.qe = FALSE]

\* TranslationManager.translate, from its first line to the loop
ManagerTranslate(w) ==
  LET tk == w.tk
      text == tk.queries[1]
  IN IF ~Truthy(text) \/ strip(text) = <<>> THEN Finish(w, text, "")
     ELSE IF from_to_invalid(tk.from_lang, tk.to_lang)
          THEN Finish(w, NoneVal, "ValueError")
          ELSE IF tk.from_lang = tk.to_lang THEN Finish(w, text, "")
          ELSE [w EXCEPT !.tk.pc = "m_select"]

\* TranslationManager.translate, were its loop not to ask is_available
ManagerSelectAny(w) ==
  LET tk == w.tk IN
  IF tk.ti > Len(w.trs) THEN Finish(w, NoneVal, "")
  ELSE LET translator == w.trs[tk.ti] IN
       IF ~supports_languages(translator, tk.from_lang, tk.to_lang)
       THEN [w EXCEPT !.tk.ti = @ + 1]
       ELSE [w EXCEPT !.tk.p = translator, !.tk.tried = Append(@, translator),
                      !.tk.pc = "t_enter"]

\* TranslationManager.translate, were it to return '' once its loop is over
ManagerSelectEmpty(w) ==
  LET tk == w.tk IN
  IF tk.ti > Len(w.trs) THEN Finish(w, <<>>, "")
  ELSE LET translator == w.trs[tk.ti] IN
       IF ~is_available(translator, w) THEN [w EXCEPT !.tk.ti = @ + 1]
       ELSE IF ~supports_languages(translator, tk.from_lang, tk.to_lang)
            THEN [w EXCEPT !.tk.ti = @ + 1]
            ELSE [w EXCEPT !.tk.p = translator, !.tk.tried = Append(@, translator),
                           !.tk.pc = "t_enter"]

\* TranslationManager.translate: the head of the loop over self.translators
ManagerSelect(w) ==
  LET tk == w.tk IN
  IF tk.ti > Len(w.trs) THEN Finish(w, NoneVal, "")
  ELSE LET translator == w.trs[tk.ti] IN
       IF ~is_available(translator, w) THEN [w EXCEPT !.tk.ti = @ + 1]
       ELSE IF ~supports_languages(translator, tk.from_lang, tk.to_lang)
            THEN [w EXCEPT !.tk.ti = @ + 1]
            ELSE [w EXCEPT !.tk.p = translator, !.tk.tried = Append(@, translator),
                           !.tk.pc = "t_enter"]

ValuableIndices(queries) ==
  SelectSeq([i \in 1..Len(queries) |-> i], LAMBDA i : is_valuable_text(queries[i]))

\* BaseTranslator.translate, up to the retry loop
TranslatorTranslate(w) ==
  LET tk == w.tk
      from_lang == normalize_language_code(tk.from_lang)
      to_lang == normalize_language_code(tk.to_lang)
      queries == tk.queries
      query_indices == ValuableIndices(queries)
      final_translations ==
        [i \in 1..Len(queries) |->
           IF is_valuable_text(queries[i]) THEN NoneVal ELSE queries[i]]
      queries_to_translate == [j \in 1..Len(query_indices) |-> queries[query_indices[j]]]
  IN IF to_lang \notin SUPPORTED_LANGUAGES \/ from_lang \notin SUPPORTED_LANGUAGES
     THEN [w EXCEPT !.tk.pc = "t_raise", !.tk.raised = "ValueError"]
     ELSE IF from_lang = to_lang
     THEN [w EXCEPT !.tk.pc = "t_ret", !.tk.ret = queries]
     ELSE IF queries_to_translate = <<>>
     THEN [w EXCEPT !.tk.pc = "t_ret", !.tk.ret = final_translations]
     ELSE [w EXCEPT !.tk.pc = "t_attempt",
                    !.tk.norm_from = from_lang, !.tk.norm_to = to_lang,
                    !.tk.final_translations = final_translations,
                    !.tk.query_indices = query_indices,
                    !.tk.queries_to_translate = queries_to_translate,
                    !.tk.translations = [j \in 1..Len(query_indices) |-> <<>>],
                    !.tk.untranslated_indices = [j \in 1..Len(query_indices) |-> j],
                    !.tk.attempt = 0]

\* BaseTranslator._ratelimit_sleep, up to its asyncio.sleep
_ratelimit_sleep(w, nowv) ==
  LET p == w.tk.p
      time_since_last == nowv - w.lts[p]
  IN IF _MAX_REQUESTS_PER_MINUTE(p) > 0
     THEN IF time_since_last < min_interval(p)
          THEN [w EXCEPT !.tk.pc = "sleeping",
                         !.tk.wake = nowv + (min_interval(p) - time_since_last)]
          ELSE [w EXCEPT !.lts[p] = nowv, !.tk.pc = "t_begin"]
     ELSE [w EXCEPT !.tk.pc = "t_begin"]

\* BaseTranslator._ratelimit_sleep: after asyncio.sleep(sleep_time)
AfterSleep(w, nowv) == [w EXCEPT !.lts[w.tk.p] = nowv, !.tk.pc = "t_begin"]

\* an outbound request: the service, the time, the texts sent
Request(tk, nowv, qs) == [p |-> tk.p, t |-> nowv, qs |-> qs]

\* BaseTranslator.translate: _translate(*parse_language_codes(fatal=True), ...)
BeginTranslate(w, nowv) ==
  LET tk == w.tk IN
  IF ~supports_languages(tk.p, tk.norm_from, tk.norm_to)
  THEN [w EXCEPT !.tk.pc = "t_done"]
  ELSE IF tk.p = "Custom"
       THEN [w EXCEPT !.tk.pc = "calling", !.tk.k = 0,
                      !.tk.sent = Append(@, Request(tk, nowv, tk.queries_to_translate))]
       ELSE [w EXCEPT !.tk.acc = <<>>, !.tk.k = 1, !.tk.pc = "t_query"]

\* DeepLTranslator._translate / GoogleTranslator._translate: the head of the
\* loop over the queries, at query k
NextQuery(w, nowv) ==
  LET tk == w.tk IN
  IF tk.k > Len(tk.queries_to_translate) THEN [w EXCEPT !.tk.pc = "t_after"]
  ELSE IF strip(tk.queries_to_translate[tk.k]) = <<>>
       THEN [w EXCEPT !.tk.acc = Append(@, <<>>), !.tk.k = @ + 1]
       ELSE [w EXCEPT !.tk.pc = "calling",
                      !.tk.sent = Append(@, Request(tk, nowv, <<tk.queries_to_translate[tk.k]>>))]

\* BaseTranslator.translate, were a longer list cut at its head
FitLengthTail(_translations, n) ==
  IF Len(_translations) < n
  THEN _translations \o [i \in 1..(n - Len(_translations)) |-> <<>>]
  ELSE IF Len(_translations) > n
       THEN SubSeq(_translations, Len(_translations) - n + 1, Len(_translations))
  ELSE _translations

\* BaseTranslator.translate: ensure the translations list has the right length
FitLength(_translations, n) ==
  IF Len(_translations) < n
  THEN _translations \o [i \in 1..(n - Len(_translations)) |-> <<>>]
  ELSE IF Len(_translations) > n THEN SubSeq(_translations, 1, n)
  ELSE _translations

InSeq(s, x) == \E j \in 1..Len(s) : s[j] = x

\* the retry loop's body, were the loop 'while True'
AfterTranslateUnbounded(w) ==
  LET tk == w.tk
      n == Len(tk.queries_to_translate)
      _translations == FitLength(tk.acc, n)
      translations ==
        [j \in 1..n |-> IF InSeq(tk.untranslated_indices, j)
                        THEN _translations[j] ELSE tk.translations[j]]
      invalid(j) ==
        _is_translation_invalid(tk.p, tk.queries_to_translate[j], translations[j])
      new_untranslated_indices == SelectSeq(tk.untranslated_indices, invalid)
      queries2 ==
        [j \in 1..n |->
           IF InSeq(new_untranslated_indices, j)
           THEN _modify_invalid_translation_query(tk.p, tk.queries_to_translate[j])
           ELSE tk.queries_to_translate[j]]
      w2 == [w EXCEPT !.tk.translations = translations, !.tk.pc = "t_done",
                      !.tk.queries_to_translate = queries2,
                      !.tk.untranslated_indices = new_untranslated_indices]
  IN IF new_untranslated_indices = <<>> THEN w2
     ELSE [w2 EXCEPT !.tk.attempt = @ + 1, !.tk.pc = "retry_sleep"]

\* the retry loop, were an attempt to replace every output
AfterTranslateReplacesAll(w) ==
  LET tk == w.tk
      n == Len(tk.queries_to_translate)
      _translations == FitLength(tk.acc, n)
      translations ==
        [j \in 1..n |-> _translations[j]]
      w1 == [w EXCEPT !.tk.translations = translations, !.tk.pc = "t_done"]
      invalid(j) ==
        _is_translation_invalid(tk.p, tk.queries_to_translate[j], translations[j])
      new_untranslated_indices == SelectSeq(tk.untranslated_indices, invalid)
      queries2 ==
        [j \in 1..n |->
           IF InSeq(new_untranslated_indices, j)
           THEN _modify_invalid_translation_query(tk.p, tk.queries_to_translate[j])
           ELSE tk.queries_to_translate[j]]
      w2 == [w1 EXCEPT !.tk.queries_to_translate = queries2,
                       !.tk.untranslated_indices = new_untranslated_indices]
  IN IF _INVALID_REPEAT_COUNT(tk.p) = 0 THEN w1
     ELSE IF new_untranslated_indices = <<>> THEN w2
     ELSE IF tk.attempt + 1 < 1 + _INVALID_REPEAT_COUNT(tk.p)
          THEN [w2 EXCEPT !.tk.attempt = @ + 1, !.tk.pc = "retry_sleep"]
          ELSE w2

\* BaseTranslator.translate: the retry loop's body after _translate returned
\* tk.acc
AfterTranslate(w) ==
  LET tk == w.tk
      n == Len(tk.queries_to_translate)
      _translations == FitLength(tk.acc, n)
      translations ==
        [j \in 1..n |-> IF InSeq(tk.untranslated_indices, j)
                        THEN _translations[j] ELSE tk.translations[j]]
      w1 == [w EXCEPT !.tk.translations = translations, !.tk.pc = "t_done"]
      invalid(j) ==
        _is_translation_invalid(tk.p, tk.queries_to_translate[j], translations[j])
      new_untranslated_indices == SelectSeq(tk.untranslated_indices, invalid)
      queries2 ==
        [j \in 1..n |->
           IF InSeq(new_untranslated_indices, j)
           THEN _modify_invalid_translation_query(tk.p, tk.queries_to_translate[j])
           ELSE tk.queries_to_translate[j]]
      w2 == [w1 EXCEPT !.tk.queries_to_translate = queries2,
                       !.tk.untranslated_indices = new_untranslated_indices]
  IN IF _INVALID_REPEAT_COUNT(tk.p) = 0 THEN w1
     ELSE IF new_untranslated_indices = <<>> THEN w2
     ELSE IF tk.attempt + 1 < 1 + _INVALID_REPEAT_COUNT(tk.p)
          THEN [w2 EXCEPT !.tk.attempt = @ + 1, !.tk.pc = "retry_sleep"]
          ELSE w2

\* position of i in the sequence s, 0 when absent
IndexOf(s, i) ==
  IF \E j \in 1..Len(s) : s[j] = i THEN CHOOSE j \in 1..Len(s) : s[j] = i ELSE 0

\* BaseTranslator.translate: merge translations back into the final result
MergeTranslations(final_translations, query_indices, cleaned_translations) ==
  [i \in 1..Len(final_translations) |->
     IF IndexOf(query_indices, i) > 0
     THEN cleaned_translations[IndexOf(query_indices, i)]
     ELSE final_translations[i]]

\* BaseTranslator.translate: after the retry loop
AfterLoop(w) ==
  LET tk == w.tk
      cleaned_translations ==
        [j \in 1..Min(Len(tk.queries_to_translate), Len(tk.translations)) |->
           _clean_translation_output(tk.queries_to_translate[j], tk.translations[j])]
  IN [w EXCEPT !.tk.pc = "t_ret",
               !.tk.ret = MergeTranslations(tk.final_translations, tk.query_indices,
                                            cleaned_translations)]

\* translator.translate returned tk.ret to its caller
ProviderReturned(w) ==
  LET result == w.tk.ret
      w1 == [w EXCEPT !.tk.results = Append(@, [raised |-> FALSE, value |-> result])]
  IN IF w.tk.kind = "manager"
     THEN IF result # <<>> /\ Truthy(result[1]) /\ strip(result[1]) # <<>>
          THEN Finish(w1, result[1], "")
          ELSE [w1 EXCEPT !.tk.ti = @ + 1, !.tk.pc = "m_select"]
     ELSE Finish(w1, result, "")

\* translator.translate raised tk.raised
ProviderRaised(w) ==
  LET w1 == [w EXCEPT !.tk.results = Append(@, [raised |-> TRUE, value |-> <<>>])]
  IN IF w.tk.kind = "manager"
     THEN [w1 EXCEPT !.tk.ti = @ + 1, !.tk.pc = "m_select", !.tk.raised = ""]
     ELSE Finish(w1, NoneVal, w.tk.raised)

Suspended(tk) ==
  tk.pc \in {"new", "waiting", "sleeping", "calling", "retry_sleep", "done"}

\* the code between two suspension points, one piece
Piece(w, nowv) ==
  CASE w.tk.pc = "m_translate" -> ManagerTranslate(w)
    [] w.tk.pc = "m_select" -> ManagerSelect(w)
    [] w.tk.pc = "t_enter" -> TranslatorTranslate(w)
    [] w.tk.pc = "t_attempt" -> _ratelimit_sleep(w, nowv)
    [] w.tk.pc = "t_begin" -> BeginTranslate(w, nowv)
    [] w.tk.pc = "t_query" -> NextQuery(w, nowv)
    [] w.tk.pc = "t_after" -> AfterTranslate(w)
    [] w.tk.pc = "t_done" -> AfterLoop(w)
    [] w.tk.pc = "t_ret" -> ProviderReturned(w)
    [] w.tk.pc = "t_raise" -> ProviderRaised(w)

\* run the coroutine until it suspends or is done
RECURSIVE Run(_, _)
Run(w, nowv) == IF Suspended(w.tk) THEN w ELSE Run(Piece(w, nowv), nowv)

(***************************************************************************)
(* What a translation service can answer to one request.  Tr stands for a  *)
(* translation: it maps the letter a to b and keeps every other character. *)
(***************************************************************************)
Tr(q) == [i \in 1..Len(q) |-> IF q[i] = "a" THEN "b" ELSE q[i]]

\* an answer that lost the [i] and [/i] markers of what was sent
Unmarked(q) == SelectSeq(q, LAMBDA c : c \notin {"[", "]", "/"} \cup Digit)

RawOutputs(q) == {Tr(q), q, <<" ">>, Unmarked(Tr(q))}

Outcome(kind, text, list) == [kind |-> kind, text |-> text, list |-> list]

\* DeepLTranslator._translate_single: a text, no result or an API error, a
\* QuotaExceededException, an AuthorizationException.
\* GoogleTranslator._translate_single: a text, an error, HTTP 429.
\* Custom._translate: a list of any length, or an exception.
Outcomes(tk) ==
  IF tk.p = "Custom"
  THEN { Outcome("list", <<>>,
                 [j \in 1..m |-> IF j <= Len(tk.queries_to_translate)
                                 THEN Tr(tk.queries_to_translate[j]) ELSE <<"b">>])
           : m \in 0..(Len(tk.queries_to_translate) + 1) }
       \cup {Outcome("raise", <<>>, <<>>)}
  ELSE { Outcome("ok", t, <<>>) : t \in RawOutputs(tk.queries_to_translate[tk.k]) }
       \cup {Outcome("fail", <<>>, <<>>)}
       \cup (IF tk.p = "DeepL"
             THEN {Outcome("quota", <<>>, <<>>), Outcome("auth", <<>>, <<>>)}
             ELSE {Outcome("ratelimit", <<>>, <<>>)})

\* the rest of _translate_single and of _translate's loop body, once the
\* service has answered
OnResponse(w, o) ==
  LET tk == w.tk
      p == tk.p
  IN CASE o.kind = "list" -> [w EXCEPT !.tk.acc = o.list, !.tk.pc = "t_after"]
       [] o.kind = "raise" -> [w EXCEPT !.tk.pc = "t_done"]
       [] o.kind = "ok" ->
            [w EXCEPT !.rc[p] = @ + 1, !.tk.acc = Append(@, o.text),
                      !.tk.k = @ + 1, !.tk.pc = "t_query"]
       [] o.kind = "fail" ->
            [w EXCEPT !.tk.acc = Append(@, <<>>), !.tk.k = @ + 1, !.tk.pc = "t_query"]
       [] o.kind = "quota" ->
            [w EXCEPT !.qe = TRUE, !.tk.acc = Append(@, <<>>), !.tk.k = @ + 1,
                      !.tk.pc = "t_query"]
       [] o.kind = "auth" ->
            [w EXCEPT !.af = TRUE, !.tk.acc = Append(@, <<>>), !.tk.k = @ + 1,
                      !.tk.pc = "t_query"]
       [] o.kind = "ratelimit" -> [w EXCEPT !.rl = TRUE, !.tk.pc = "t_done"]

(***************************************************************************)
(* services/translate/translation_manager.py                               *)
(***************************************************************************)
DefaultMaxConcurrent == 3

\* _merge_nearby_boxes(boxes, threshold=20)
DefaultThreshold == 20

\* TranslationManager._initialize_sync: DeepL first when a key is set and the
\* translator comes up available, Google always
InitTranslators(deepl_ok) ==
  (IF deepl_api_key /\ deepl_ok THEN <<"DeepL">> ELSE <<>>) \o <<"Google">>

\* TranslationManager._ensure_initialized
EnsureInitialized(deepl_ok) ==
  IF initialized THEN translators ELSE InitTranslators(deepl_ok)

InFlight(ts) ==
  Cardinality({i \in DOMAIN ts : ts[i].pc \in {"sleeping", "calling", "retry_sleep"}})

\* asyncio.gather, were there no semaphore
RECURSIVE StartAllAtOnce(_, _, _, _)
StartAllAtOnce(w, ts, i, max_concurrent) ==
  IF i > Len(ts) THEN [w |-> w, tasks |-> ts]
  ELSE LET w2 == Run([w EXCEPT !.tk = [ts[i] EXCEPT !.pc = "m_translate"]], now)
       IN StartAllAtOnce(w2, [ts EXCEPT ![i] = w2.tk], i + 1, max_concurrent)

\* asyncio.gather starts the coroutines in order; each runs to its first
\* suspension: translate_with_semaphore blocks when the semaphore is taken
RECURSIVE StartAll(_, _, _, _)
StartAll(w, ts, i, max_concurrent) ==
  IF i > Len(ts) THEN [w |-> w, tasks |-> ts]
  ELSE IF InFlight(ts) >= max_concurrent
       THEN StartAll(w, [ts EXCEPT ![i].pc = "waiting"], i + 1, max_concurrent)
       ELSE LET w2 == Run([w EXCEPT !.tk = [ts[i] EXCEPT !.pc = "m_translate"]], now)
            IN StartAll(w2, [ts EXCEPT ![i] = w2.tk], i + 1, max_concurrent)

Commit(w, ts) ==
  /\ tasks' = ts
  /\ last_request_ts' = w.lts
  /\ request_count' = w.rc
  /\ quota_exceeded' = w.qe
  /\ auth_failed' = w.af
  /\ rate_limited' = w.rl

NewCall(kind, texts, from_lang, to_lang, max_concurrent, st, result, raised) ==
  [kind |-> kind, texts |-> texts, from_lang |-> from_lang, to_lang |-> to_lang,
   max_concurrent |-> max_concurrent, status |-> st, result |-> result,
   raised |-> raised]

NoCall == NewCall("none", <<>>, "", "", 0, "idle", NoneVal, "")

CallIdle == call.status = "idle"

\* once its coroutines are done the call returns to its caller: translate's
\* return value or exception, translate_batch's processed_results (None for a
\* text whose translate raised)
Returned(c, ts) ==
  IF \E i \in DOMAIN ts : ts[i].pc # "done" THEN c
  ELSE IF c.kind = "translate_batch"
       THEN [c EXCEPT !.status = "returned",
                      !.result = [i \in 1..Len(ts) |->
                                    IF ts[i].raised # "" THEN NoneVal
                                    ELSE ts[i].result]]
       ELSE IF ts[1].raised # ""
            THEN [c EXCEPT !.status = "raised", !.raised = ts[1].raised]
            ELSE [c EXCEPT !.status = "returned", !.result = ts[1].result]

\* TranslationManager.translate(text, from_lang, to_lang)
Translate(text, from_lang, to_lang, deepl_ok) ==
  LET trs == EnsureInitialized(deepl_ok)
      tk == [NewTask("manager", "", <<text>>, from_lang, to_lang, "m_translate")
               EXCEPT !.id = 1]
      w == Run([World(tk) EXCEPT !.trs = trs], now)
  IN /\ initialized' = TRUE
     /\ translators' = trs
     /\ Commit(w, <<w.tk>>)
     /\ call' = Returned(NewCall("translate", <<text>>, from_lang, to_lang, 0,
                                 "running", NoneVal, ""), <<w.tk>>)

\* TranslationManager.translate_batch(texts, from_lang, to_lang, max_concurrent)
TranslateBatch(texts, from_lang, to_lang, max_concurrent, deepl_ok) ==
  LET trs == EnsureInitialized(deepl_ok)
      w0 == [World(NewTask("manager", "", <<>>, "", "", "new"))
               EXCEPT !.trs = trs]
      ts == [i \in 1..Len(texts) |->
               [NewTask("manager", "", <<texts[i]>>, from_lang, to_lang, "new")
                  EXCEPT !.id = i]]
      started == StartAll(w0, ts, 1, max_concurrent)
      c(st, result, raised) ==
        NewCall("translate_batch", texts, from_lang, to_lang, max_concurrent,
                st, result, raised)
  IN /\ initialized' = TRUE
     /\ translators' = trs
     /\ IF texts = <<>>
        THEN Commit(w0, <<>>) /\ call' = c("returned", <<>>, "")
        ELSE IF from_to_invalid(from_lang, to_lang)
        THEN Commit(w0, <<>>) /\ call' = c("raised", NoneVal, "ValueError")
        ELSE IF from_lang = to_lang
        THEN Commit(w0, <<>>) /\ call' = c("returned", texts, "")
        ELSE /\ Commit(started.w, started.tasks)
             /\ call' = Returned(c("running", NoneVal, ""), started.tasks)

\* translator.translate(from_lang, to_lang, queries) on one translator
DirectTranslate(p, queries, from_lang, to_lang) ==
  LET tk == [NewTask("direct", p, queries, from_lang, to_lang, "t_enter")
               EXCEPT !.id = 1]
      w == Run([World(tk) EXCEPT !.trs = translators], now)
  IN /\ Commit(w, <<w.tk>>)
     /\ call' = Returned(NewCall("direct", queries, from_lang, to_lang, 0,
                                 "running", NoneVal, ""), <<w.tk>>)
     /\ UNCHANGED <<initialized, translators>>

(***************************************************************************)
(* The steps of the translate coroutines.                                  *)
(***************************************************************************)
Step(i, w) ==
  /\ Commit(w, [tasks EXCEPT ![i] = w.tk])
  /\ call' = Returned(call, [tasks EXCEPT ![i] = w.tk])
  /\ UNCHANGED <<now, deepl_api_key, initialized, translators, ncalls>>

\* the answer is the translation of what was sent
Faultless(tk, o) ==
  \/ o.kind = "ok" /\ o.text = Tr(tk.queries_to_translate[tk.k])
  \/ o.kind = "list" /\ Len(o.list) = Len(tk.queries_to_translate)

\* asyncio.sleep(sleep_time) in _ratelimit_sleep is over
TaskWake(i) ==
  /\ tasks[i].pc = "sleeping"
  /\ now >= tasks[i].wake
  /\ Step(i, Run(AfterSleep(World(tasks[i]), now), now))
  /\ UNCHANGED <<nfaults, runVars>>

\* asyncio.sleep(0.1) before a retry is over
TaskRetry(i) ==
  /\ tasks[i].pc = "retry_sleep"
  /\ Step(i, Run([World(tasks[i]) EXCEPT !.tk.pc = "t_attempt"], now))
  /\ UNCHANGED <<nfaults, runVars>>

\* the translation service answers the request in flight
TaskResponse(i) ==
  /\ tasks[i].pc = "calling"
  /\ \E o \in Outcomes(tasks[i]) :
       /\ Step(i, Run(OnResponse(World(tasks[i]), o), now))
       /\ IF Faultless(tasks[i], o) THEN UNCHANGED nfaults
          ELSE nfaults < MaxFaults /\ nfaults' = nfaults + 1
  /\ UNCHANGED runVars

\* a coroutine waiting for the semaphore gets it: waiters are served in order
TaskAcquire(i) ==
  /\ tasks[i].pc = "waiting"
  /\ \A j \in 1..(i - 1) : tasks[j].pc # "waiting"
  /\ InFlight(tasks) < call.max_concurrent
  /\ Step(i, Run([World(tasks[i]) EXCEPT !.tk.pc = "m_translate"], now))
  /\ UNCHANGED <<nfaults, runVars>>

\* the caller is done with the result of the call
Forget ==
  /\ call.status \in {"returned", "raised"}
  /\ call' = NoCall
  /\ tasks' = <<>>
  /\ UNCHANGED <<now, deepl_api_key, initialized, translators, last_request_ts,
                 request_count, quota_exceeded, auth_failed, rate_limited, ncalls,
                 nfaults, runVars>>

\* time passes between two calls
Tick ==
  /\ CallIdle
  /\ now + TimeStep <= MaxTime
  /\ now' = now + TimeStep
  /\ UNCHANGED <<deepl_api_key, initialized, translators, last_request_ts,
                 request_count, quota_exceeded, auth_failed, rate_limited, tasks,
                 call, ncalls, nfaults, runVars>>

\* time passes until the first sleeping coroutine is due
SleepElapse ==
  /\ \E i \in DOMAIN tasks : tasks[i].pc = "sleeping" /\ tasks[i].wake > now
  /\ \A i \in DOMAIN tasks : tasks[i].pc # "sleeping" \/ tasks[i].wake > now
  /\ \E i \in DOMAIN tasks :
       /\ tasks[i].pc = "sleeping"
       /\ \A j \in DOMAIN tasks : tasks[j].pc = "sleeping" => tasks[i].wake <= tasks[j].wake
       /\ now' = tasks[i].wake
  /\ UNCHANGED <<deepl_api_key, initialized, translators, last_request_ts,
                 request_count, quota_exceeded, auth_failed, rate_limited, tasks,
                 call, ncalls, nfaults, runVars>>

\* DeepLTranslator.reset_quota_status, called between two calls
reset_quota_status ==
  /\ CallIdle
  /\ quota_exceeded
  /\ quota_exceeded' = FALSE
  /\ UNCHANGED <<now, deepl_api_key, initialized, translators, last_request_ts,
                 request_count, auth_failed, rate_limited, tasks, call, ncalls,
                 nfaults, runVars>>

\* GoogleTranslator.reset_rate_limit, called between two calls
reset_rate_limit ==
  /\ CallIdle
  /\ rate_limited
  /\ rate_limited' = FALSE
  /\ UNCHANGED <<now, deepl_api_key, initialized, translators, last_request_ts,
                 request_count, quota_exceeded, auth_failed, tasks, call, ncalls,
                 nfaults, runVars>>

(***************************************************************************)
(* services/orchestrator.py: the messages, as Python strings.              *)
(***************************************************************************)
\* 'Translation process started.'
MsgStarted ==
  <<"T", "r", "a", "n", "s", "l", "a", "t", "i", "o", "n", " ", "p", "r",
    "o", "c", "e", "s", "s", " ", "s", "t", "a", "r", "t", "e", "d", ".">>

\* 'Starting OCR text extraction...'
MsgOcr ==
  <<"S", "t", "a", "r", "t", "i", "n", "g", " ", "O", "C", "R", " ", "t",
    "e", "x", "t", " ", "e", "x", "t", "r", "a", "c", "t", "i", "o", "n",
    ".", ".", ".">>

\* 'Translating extracted text...'
MsgTranslating ==
  <<"T", "r", "a", "n", "s", "l", "a", "t", "i", "n", "g", " ", "e", "x",
    "t", "r", "a", "c", "t", "e", "d", " ", "t", "e", "x", "t", ".", ".",
    ".">>

\* 'Removing original text from image...'
MsgInpainting ==
  <<"R", "e", "m", "o", "v", "i", "n", "g", " ", "o", "r", "i", "g", "i",
    "n", "a", "l", " ", "t", "e", "x", "t", " ", "f", "r", "o", "m", " ",
    "i", "m", "a", "g", "e", ".", ".", ".">>

\* 'Adding translated text to image...'
MsgRendering ==
  <<"A", "d", "d", "i", "n", "g", " ", "t", "r", "a", "n", "s", "l", "a",
    "t", "e", "d", " ", "t", "e", "x", "t", " ", "t", "o", " ", "i", "m",
    "a", "g", "e", ".", ".", ".">>

\* 'Translation completed successfully.'
MsgCompleted ==
  <<"T", "r", "a", "n", "s", "l", "a", "t", "i", "o", "n", " ", "c", "o",
    "m", "p", "l", "e", "t", "e", "d", " ", "s", "u", "c", "c", "e", "s",
    "s", "f", "u", "l", "l", "y", ".">>

\* 'Translation failed: '
MsgFailed ==
  <<"T", "r", "a", "n", "s", "l", "a", "t", "i", "o", "n", " ", "f", "a",
    "i", "l", "e", "d", ":", " ">>

\* 'Translation process failed: '
MsgProcessFailed ==
  <<"T", "r", "a", "n", "s", "l", "a", "t", "i", "o", "n", " ", "p", "r",
    "o", "c", "e", "s", "s", " ", "f", "a", "i", "l", "e", "d", ":", " ">>

\* 'No text found in image.'
MsgNoText ==
  <<"N", "o", " ", "t", "e", "x", "t", " ", "f", "o", "u", "n", "d", " ",
    "i", "n", " ", "i", "m", "a", "g", "e", ".">>

\* 'Text extraction failed: '
MsgExtractionFailed ==
  <<"T", "e", "x", "t", " ", "e", "x", "t", "r", "a", "c", "t", "i", "o",
    "n", " ", "f", "a", "i", "l", "e", "d", ":", " ">>

\* 'No OCR service available for language: '
MsgNoService ==
  <<"N", "o", " ", "O", "C", "R", " ", "s", "e", "r", "v", "i", "c", "e",
    " ", "a", "v", "a", "i", "l", "a", "b", "l", "e", " ", "f", "o", "r",
    " ", "l", "a", "n", "g", "u", "a", "g", "e", ":", " ">>

\* 'No reader available for: '
MsgNoReader ==
  <<"N", "o", " ", "r", "e", "a", "d", "e", "r", " ", "a", "v", "a", "i",
    "l", "a", "b", "l", "e", " ", "f", "o", "r", ":", " ">>

\* 'japanese'
StrJapanese ==
  <<"j", "a", "p", "a", "n", "e", "s", "e">>

\* 'english'
StrEnglish ==
  <<"e", "n", "g", "l", "i", "s", "h">>

\* Language.value as a Python string
LangStr(language) == IF language = "japanese" THEN StrJapanese ELSE StrEnglish

(***************************************************************************)
(* The inputs of the calls.                                                *)
(***************************************************************************)
TextAlphabet == {"a", " "}

Strings(alphabet, n) == UNION {[1..k -> alphabet] : k \in 0..n}

BatchTexts == << <<"a", "a">>, <<"a", "?">>, <<"?", "?">> >>

TextPool ==
  Strings(TextAlphabet, MaxTextLen) \cup {BatchTexts[i] : i \in 1..Len(BatchTexts)}

\* the lists of at most MaxBatch texts
QueryPool == Strings({BatchTexts[i] : i \in 1..Len(BatchTexts)}, MaxBatch)

\* the batches: the lists of distinct texts, in the order of BatchTexts
BatchPool ==
  { [i \in 1..Len(ix) |-> BatchTexts[ix[i]]] :
      ix \in { jx \in Strings(1..Len(BatchTexts), MaxBatch) :
                 \A i \in 1..Len(jx) : \A j \in 1..Len(jx) : i < j => jx[i] < jx[j] } }

LangPairs ==
  { <<"japanese", "english">>, <<"japanese", "vietnamese">>,
    <<"english", "english">>, <<"JPN", "ENG">>, <<"japanese", "klingon">> }

\* whether DeepLTranslator comes up available matters at initialization only
InitChoices == IF initialized THEN {TRUE} ELSE BOOLEAN

CallTranslate ==
  /\ CallIdle /\ ncalls < MaxCalls
  /\ ncalls' = ncalls + 1
  /\ \E text \in TextPool, lp \in LangPairs, deepl_ok \in InitChoices :
       Translate(text, lp[1], lp[2], deepl_ok)
  /\ UNCHANGED <<now, deepl_api_key, nfaults, runVars>>

CallTranslateBatch ==
  /\ CallIdle /\ ncalls < MaxCalls
  /\ ncalls' = ncalls + 1
  /\ \E texts \in BatchPool, lp \in LangPairs, deepl_ok \in InitChoices,
        max_concurrent \in {1, DefaultMaxConcurrent} :
       TranslateBatch(texts, lp[1], lp[2], max_concurrent, deepl_ok)
  /\ UNCHANGED <<now, deepl_api_key, nfaults, runVars>>

CallDirect ==
  /\ CallIdle /\ ncalls < MaxCalls
  /\ ncalls' = ncalls + 1
  /\ \E p \in Providers, queries \in QueryPool, lp \in LangPairs :
       /\ p \in {"DeepL", "Google"} => InSeq(translators, p)
       /\ DirectTranslate(p, queries, lp[1], lp[2])
  /\ UNCHANGED <<now, deepl_api_key, nfaults, runVars>>

(***************************************************************************)
(* The translation engine on its own: calls of translate, translate_batch  *)
(* and of a translator's translate, one at a time.                         *)
(***************************************************************************)
TMInit ==
  /\ now = min_interval("Google")
  /\ deepl_api_key \in BOOLEAN
  /\ initialized = FALSE
  /\ translators = <<>>
  /\ last_request_ts = [p \in Providers |-> 0]
  /\ request_count = [p \in Providers |-> 0]
  /\ quota_exceeded = FALSE
  /\ auth_failed = FALSE
  /\ rate_limited = FALSE
  /\ tasks = <<>>
  /\ call = NoCall
  /\ ncalls = 0
  /\ nfaults = 0

RunIdle ==
  /\ pc = "idle"
  /\ status_callback = FALSE
  /\ sink = <<>>
  /\ text_boxes = <<>>
  /\ translated_combined = <<>>
  /\ request = <<"", "">>
  /\ box = 0
  /\ erased = {}
  /\ rendered = {}
  /\ inpaint_raised = {}
  /\ render_raised = {}
  /\ error = NoneVal
  /\ nruns = 0
  /\ ocr = NoMerge
  /\ WebIdle

InitTM == TMInit /\ RunIdle

NextTM ==
  \/ CallTranslate
  \/ CallTranslateBatch
  \/ CallDirect
  \/ \E i \in DOMAIN tasks : TaskWake(i)
  \/ \E i \in DOMAIN tasks : TaskRetry(i)
  \/ \E i \in DOMAIN tasks : TaskResponse(i)
  \/ \E i \in DOMAIN tasks : TaskAcquire(i)
  \/ Forget
  \/ Tick
  \/ SleepElapse
  \/ reset_quota_status
  \/ reset_rate_limit

SpecTM == InitTM /\ [][NextTM]_vars

(***************************************************************************)
(* services/orchestrator.py: the pure parts of the translation stage.  A   *)
(* text box is its text, its translated_text and the corner bbox.x1,       *)
(* bbox.y1.                                                                *)
(***************************************************************************)
TextBox(text, x1, y1) == [text |-> text, translated_text |-> <<>>, x1 |-> x1, y1 |-> y1]

\* get_sort_key of box i comes before that of box j; sorted() is stable.
\* TextBox has no attribute language, so the key is always (y1, x1).
KeyBefore(boxes, i, j) ==
  \/ boxes[i].y1 < boxes[j].y1
  \/ boxes[i].y1 = boxes[j].y1 /\ boxes[i].x1 < boxes[j].x1
  \/ boxes[i].y1 = boxes[j].y1 /\ boxes[i].x1 = boxes[j].x1 /\ i < j

\* OCRService._boxes_nearby: the distance of the centres is at most threshold
_boxes_nearby(bbox1, bbox2, threshold) ==
  LET c1x == (bbox1.x1 + bbox1.x2) \div 2
      c1y == (bbox1.y1 + bbox1.y2) \div 2
      c2x == (bbox2.x1 + bbox2.x2) \div 2
      c2y == (bbox2.y1 + bbox2.y2) \div 2
  IN (c1x - c2x) * (c1x - c2x) + (c1y - c2y) * (c1y - c2y) <= threshold * threshold

\* OCRService._merge_text_boxes: TextBox has no attribute confidence (nor
\* language), so building the merged box raises AttributeError
_merge_text_boxes(group) ==
  IF Len(group) = 1 THEN [raised |-> "", value |-> group[1]]
  ELSE [raised |-> "AttributeError", value |-> NoneVal]

\* OCRService._merge_nearby_boxes: st[i] is the loop's state after box i,
\* 'used' the boxes already in a group
_merge_nearby_boxes(boxes, threshold) ==
  LET n == Len(boxes)
      st[i \in 0..n] ==
        IF i = 0 THEN [used |-> {}, merged |-> <<>>, raised |-> ""]
        ELSE LET s0 == st[i - 1]
                 near == {j \in (i + 1)..n :
                            j \notin s0.used /\ _boxes_nearby(boxes[i], boxes[j], threshold)}
                 members == SelectSeq([k \in 1..n |-> k], LAMBDA k : k = i \/ k \in near)
                 one == _merge_text_boxes([k \in 1..Len(members) |-> boxes[members[k]]])
             IN IF s0.raised # "" \/ i \in s0.used THEN s0
                ELSE IF one.raised # "" THEN [s0 EXCEPT !.raised = one.raised]
                ELSE [used |-> s0.used \cup {i} \cup near,
                      merged |-> Append(s0.merged, one.value),
                      raised |-> ""]
  IN IF boxes = <<>> THEN [raised |-> "", value |-> boxes]
     ELSE [raised |-> st[n].raised, value |-> st[n].merged]

\* TranslationOrchestrator._sort_text_boxes_reading_order: the indices of the
\* boxes in sorted order
_sort_text_boxes_reading_order(boxes) ==
  CHOOSE order \in [1..Len(boxes) -> 1..Len(boxes)] :
    \A i \in 1..Len(boxes) : \A j \in 1..Len(boxes) :
      i < j => KeyBefore(boxes, order[i], order[j])

\* f"[{i}]{text_box.text}[/{i}]"
Marked(i, text) ==
  <<"[">> \o StrOfInt(i) \o <<"]">> \o text \o <<"[", "/">> \o StrOfInt(i) \o <<"]">>

\* TranslationOrchestrator._combine_text_for_context
_combine_text_for_context(boxes) ==
  LET sorted_boxes == _sort_text_boxes_reading_order(boxes)
      kept == SelectSeq([i \in 1..Len(boxes) |-> i],
                        LAMBDA i : strip(boxes[sorted_boxes[i]].text) # <<>>)
      combined_parts ==
        [k \in 1..Len(kept) |-> Marked(kept[k] - 1, boxes[sorted_boxes[kept[k]]].text)]
  IN Join(<<" ">>, combined_parts)

\* first position from i on where pat starts in s, 0 when there is none
RECURSIVE Find(_, _, _)
Find(s, i, pat) ==
  IF i + Len(pat) - 1 > Len(s) THEN 0
  ELSE IF StartsWithAt(s, i, pat) THEN i ELSE Find(s, i + 1, pat)

\* re.findall(r'\[(\d+)\](.*?)\[/\1\]', s, re.DOTALL) from position i on
RECURSIVE FindAll(_, _)
FindAll(s, i) ==
  IF i > Len(s) THEN <<>>
  ELSE LET j == IF s[i] = "[" THEN RunEnd(s, i + 1, Digit) ELSE i
           idx == SubSeq(s, i + 1, j)
           closing == <<"[", "/">> \o idx \o <<"]">>
           k == Find(s, j + 2, closing)
       IN IF s[i] = "[" /\ j > i /\ j < Len(s) /\ s[j + 1] = "]" /\ k > 0
          THEN <<[idx |-> idx, text |-> SubSeq(s, j + 2, k - 1)]>>
                 \o FindAll(s, k + Len(closing))
          ELSE FindAll(s, i + 1)

\* the mapping of index to translated text, were the text not stripped
TranslationUntrimmed(matches, i) ==
  LET hits == SelectSeq(matches, LAMBDA m : IntOf(m.idx) = i)
  IN IF hits = <<>> THEN NoneVal ELSE hits[Len(hits)].text

\* {int(idx): text.strip() for idx, text in matches}: the last match of an
\* index wins; NoneVal when the index has no match
TranslationOf(matches, i) ==
  LET hits == SelectSeq(matches, LAMBDA m : IntOf(m.idx) = i)
  IN IF hits = <<>> THEN NoneVal ELSE strip(hits[Len(hits)].text)

\* TranslationOrchestrator._distribute_translated_text raises: re.findall on
\* None
DistributeRaises(translated) == translated = NoneVal

\* _distribute_translated_text, were it to take the boxes in the order given
DistributeUnsorted(boxes, translated) ==
  LET matches == FindAll(translated, 1)
  IN [b \in 1..Len(boxes) |->
        IF Truthy(TranslationOf(matches, b - 1))
        THEN [boxes[b] EXCEPT !.translated_text = TranslationOf(matches, b - 1)]
        ELSE [boxes[b] EXCEPT !.translated_text = boxes[b].text]]

\* TranslationOrchestrator._distribute_translated_text, its try block
_distribute_translated_text(boxes, translated) ==
  LET matches == FindAll(translated, 1)
      sorted_boxes == _sort_text_boxes_reading_order(boxes)
      position(b) == CHOOSE i \in 1..Len(boxes) : sorted_boxes[i] = b
  IN [b \in 1..Len(boxes) |->
        IF Truthy(TranslationOf(matches, position(b) - 1))
        THEN [boxes[b] EXCEPT !.translated_text = TranslationOf(matches, position(b) - 1)]
        ELSE [boxes[b] EXCEPT !.translated_text = boxes[b].text]]

\* translated_text.split('.') from position i on
RECURSIVE Split(_, _)
Split(s, sep) ==
  LET k == Find(s, 1, sep)
  IN IF k = 0 THEN <<s>>
     ELSE <<SubSeq(s, 1, k - 1)>> \o Split(Drop(s, k + Len(sep) - 1), sep)

\* TranslationOrchestrator._simple_text_distribution, for a str
_simple_text_distribution(boxes, translated_text) ==
  LET parts == SelectSeq(Split(translated_text, <<".">>), LAMBDA x : strip(x) # <<>>)
      sentences == [i \in 1..Len(parts) |-> Append(strip(parts[i]), ".")]
  IN [b \in 1..Len(boxes) |->
        IF b <= Len(sentences)
        THEN [boxes[b] EXCEPT !.translated_text = StripChars(sentences[b], {"."})]
        ELSE [boxes[b] EXCEPT !.translated_text = boxes[b].text]]

\* _translate_text_boxes, were its except block to leave the boxes alone
KeepBlank(boxes) == boxes

\* TranslationOrchestrator._translate_text_boxes, its except block: keep the
\* original text of the boxes that have no translated_text
KeepOriginal(boxes) ==
  [b \in 1..Len(boxes) |->
     IF ~Truthy(boxes[b].translated_text)
     THEN [boxes[b] EXCEPT !.translated_text = boxes[b].text]
     ELSE boxes[b]]

\* TranslationOrchestrator._translate_text_boxes once translate has returned
\* translated or has raised
AfterManagerTranslate(boxes, translated, raised) ==
  IF raised THEN KeepOriginal(boxes)
  ELSE IF ~DistributeRaises(translated)
       THEN _distribute_translated_text(boxes, translated)
       ELSE IF translated = NoneVal
            THEN KeepOriginal(boxes)
            ELSE _simple_text_distribution(boxes, translated)

(***************************************************************************)
(* services/orchestrator.py: one TranslationOrchestrator, whose            *)
(* TranslationManager has no DeepL key, serving one request at a time.     *)
(***************************************************************************)
\* models/schemas.py ProcessingStatus(stage=..., message=...)
ProcessingStatus(stage, message) ==
  [stage |-> stage, message |-> message, details |-> NoneVal]

\* utils/exceptions.py ProcessingError(message)
ProcessingError(message) == [message |-> message, details |-> NoneVal]

\* MangaTranslatorException.__str__
str(e) ==
  IF Truthy(e.details) THEN e.message \o <<":", " ">> \o e.details ELSE e.message

\* if status_callback: status_callback(status)
Emit(status) == IF status_callback THEN Append(sink, status) ELSE sink

BoxPool ==
  { TextBox(<<"a", "a">>, 0, 1), TextBox(<<"a", "?">>, 1, 0),
    TextBox(<<"?", "?">>, 0, 0) }

\* what extract_text can return: at most MaxBoxes boxes, each with text
OcrPool ==
  { boxes \in Strings(BoxPool, MaxBoxes) :
      \A i \in 1..Len(boxes) : \A j \in 1..Len(boxes) : i # j => boxes[i] # boxes[j] }

\* what get_ocr_service and extract_text raise
OcrExceptions(language) ==
  {MsgNoService \o LangStr(language), MsgNoReader \o LangStr(language)}

RequestPool == {<<"japanese", "english">>, <<"english", "english">>}

\* process_manga_translation, its except block: e has been raised
Raise(e) ==
  /\ sink' = Emit(ProcessingStatus("error", MsgFailed \o str(e) \o <<".">>))
  /\ error' = ProcessingError(MsgProcessFailed \o str(e) \o <<".">>)
  /\ pc' = "failed"

\* process_manga_translation is called: up to the await of _extract_text
process_manga_translation ==
  /\ pc = "idle" /\ CallIdle /\ nruns < MaxRuns
  /\ nruns' = nruns + 1
  /\ \E cb \in BOOLEAN, r \in RequestPool :
       /\ status_callback' = cb
       /\ request' = r
       /\ sink' = IF cb THEN << ProcessingStatus("initialized", MsgStarted),
                               ProcessingStatus("ocr", MsgOcr) >>
                  ELSE <<>>
  /\ pc' = "ocr"
  /\ UNCHANGED <<webVars, ocr, text_boxes, translated_combined, box, erased, rendered,
                 inpaint_raised, render_raised, error, tmVars>>

\* _extract_text returns, were process_manga_translation to go on with
\* whatever list of boxes it got
OcrReturnsAnyList ==
  /\ pc = "ocr"
  /\ \E boxes \in OcrPool :
       /\ text_boxes' = boxes
       /\ sink' = Emit(ProcessingStatus("translation", MsgTranslating))
       /\ pc' = "translation"
       /\ Translate(_combine_text_for_context(boxes), request[1], request[2],
                    FALSE)
       /\ ncalls' = ncalls + 1
       /\ UNCHANGED <<now, deepl_api_key, nfaults, error>>
  /\ UNCHANGED <<webVars, ocr, status_callback, translated_combined, request, box, erased,
                 rendered, inpaint_raised, render_raised, nruns>>

\* _extract_text returns: no box is an error, else the translation stage
\* starts, up to the await of translation_manager.translate
OcrReturns ==
  /\ pc = "ocr"
  /\ \E boxes \in OcrPool :
       IF boxes = <<>>
       THEN /\ Raise(ProcessingError(MsgNoText))
            /\ UNCHANGED <<text_boxes, tmVars>>
       ELSE /\ text_boxes' = boxes
            /\ sink' = Emit(ProcessingStatus("translation", MsgTranslating))
            /\ pc' = "translation"
            /\ Translate(_combine_text_for_context(boxes), request[1], request[2],
                         FALSE)
            /\ ncalls' = ncalls + 1
            /\ UNCHANGED <<now, deepl_api_key, nfaults, error>>
  /\ UNCHANGED <<webVars, ocr, status_callback, translated_combined, request, box, erased,
                 rendered, inpaint_raised, render_raised, nruns>>

\* _extract_text raises
OcrRaises ==
  /\ pc = "ocr"
  /\ \E m \in OcrExceptions(request[1]) :
       Raise(ProcessingError(MsgExtractionFailed \o m))
  /\ UNCHANGED <<webVars, ocr, status_callback, text_boxes, translated_combined, request, box,
                 erased, rendered, inpaint_raised, render_raised, nruns, tmVars>>

\* the rest of _translate_text_boxes once translation_manager.translate has
\* returned result or has raised, then the inpainting stage starts
TranslationOver(result, raised) ==
  /\ translated_combined' = result
  /\ text_boxes' = AfterManagerTranslate(text_boxes, result, raised)
  /\ sink' = Emit(ProcessingStatus("inpainting", MsgInpainting))
  /\ pc' = "inpainting"
  /\ box' = 1
  /\ call' = NoCall
  /\ tasks' = <<>>

\* translation_manager.translate is over: the rest of _translate_text_boxes,
\* then the inpainting stage starts
TranslationDone ==
  /\ pc = "translation"
  /\ call.status \in {"returned", "raised"}
  /\ TranslationOver(call.result, call.status = "raised")
  /\ UNCHANGED <<webVars, ocr, status_callback, request, erased, rendered, inpaint_raised,
                 render_raised, error, nruns, now, deepl_api_key, initialized,
                 translators, last_request_ts, request_count, quota_exceeded,
                 auth_failed, rate_limited, ncalls, nfaults>>

\* _inpaint_text_regions, were the rendering stage announced as soon as the
\* first box has been through inpaint_textbox
InpaintBoxEarly ==
  /\ pc = "inpainting"
  /\ \E ok \in BOOLEAN :
       /\ erased' = IF ok THEN erased \cup {box} ELSE erased
       /\ inpaint_raised' = IF ok THEN inpaint_raised ELSE inpaint_raised \cup {box}
  /\ box' = 1
  /\ pc' = "rendering"
  /\ sink' = Emit(ProcessingStatus("rendering", MsgRendering))
  /\ UNCHANGED <<webVars, ocr, status_callback, text_boxes, translated_combined, request,
                 rendered, render_raised, error, nruns, tmVars>>

\* _inpaint_text_regions, one turn of its loop: inpaint_textbox erases the box,
\* or something in it raises and it returns the image as it was; after the
\* last box the rendering stage starts
InpaintBox ==
  /\ pc = "inpainting"
  /\ \E ok \in BOOLEAN :
       /\ erased' = IF ok THEN erased \cup {box} ELSE erased
       /\ inpaint_raised' = IF ok THEN inpaint_raised ELSE inpaint_raised \cup {box}
  /\ IF box < Len(text_boxes)
     THEN box' = box + 1 /\ UNCHANGED <<pc, sink>>
     ELSE /\ box' = 1
          /\ pc' = "rendering"
          /\ sink' = Emit(ProcessingStatus("rendering", MsgRendering))
  /\ UNCHANGED <<webVars, ocr, status_callback, text_boxes, translated_combined, request,
                 rendered, render_raised, error, nruns, tmVars>>

\* _render_translated_text, one turn of its loop: render_text draws the box,
\* or it raises and the except block returns the image it was given; after
\* the loop the run is completed
RenderBox ==
  /\ pc = "rendering"
  /\ LET wanted == strip(text_boxes[box].translated_text) # <<>>
     IN \E ok \in (IF wanted THEN BOOLEAN ELSE {TRUE}) :
          /\ rendered' = IF ~ok THEN {}
                         ELSE IF wanted THEN rendered \cup {box} ELSE rendered
          /\ render_raised' = IF ok THEN render_raised ELSE {box}
          /\ IF ok /\ box < Len(text_boxes)
             THEN box' = box + 1 /\ UNCHANGED <<pc, sink>>
             ELSE /\ box' = 0
                  /\ pc' = "completed"
                  /\ sink' = Emit(ProcessingStatus("completed", MsgCompleted))
  /\ UNCHANGED <<webVars, ocr, status_callback, text_boxes, translated_combined, request,
                 erased, inpaint_raised, error, nruns, tmVars>>

\* the caller has the image and the boxes, or the exception
Done ==
  /\ pc \in {"completed", "failed"}
  /\ pc' = "idle"
  /\ status_callback' = FALSE
  /\ sink' = <<>>
  /\ text_boxes' = <<>>
  /\ translated_combined' = <<>>
  /\ request' = <<"", "">>
  /\ box' = 0
  /\ erased' = {}
  /\ rendered' = {}
  /\ inpaint_raised' = {}
  /\ render_raised' = {}
  /\ error' = NoneVal
  /\ UNCHANGED <<webVars, ocr, nruns, tmVars>>

Init == TMInit /\ deepl_api_key = FALSE /\ RunIdle

Next ==
  \/ process_manga_translation
  \/ OcrReturns
  \/ OcrRaises
  \/ \E i \in DOMAIN tasks : TaskWake(i)
  \/ \E i \in DOMAIN tasks : TaskRetry(i)
  \/ \E i \in DOMAIN tasks : TaskResponse(i)
  \/ TranslationDone
  \/ InpaintBox
  \/ RenderBox
  \/ Done
  \/ Tick
  \/ SleepElapse
  \/ reset_rate_limit

Spec == Init /\ [][Next]_vars

(***************************************************************************)
(* The translation stage on its own: _translate_text_boxes on any list of  *)
(* boxes, for anything translation_manager.translate can give back.        *)
(***************************************************************************)
\* lists of at most MaxBoxes boxes; box i has the text BatchTexts[i] and its
\* corner (x1, y1) is any of four
StageBoxes ==
  { [i \in 1..Len(cs) |-> TextBox(BatchTexts[i], cs[i][1], cs[i][2])] :
      cs \in Strings((0..1) \X (0..1), MaxBoxes) }

\* texts a service can put between two markers
MarkedTexts == { <<"x">>, <<"y">>, <<" ", "x", " ">>, <<" ">> }

\* pieces of an answer: a text between the markers of an index, a text without
\* markers, a text whose closing marker is missing or is that of another index
Pieces ==
  { Marked(i, t) : i \in 0..(MaxBoxes - 1), t \in MarkedTexts }
    \cup { <<"x", ".", " ", "y">>, <<"y">> }
    \cup { <<"[", "0", "]", "x">>, <<"[", "0", "]", "x", "[", "/", "1", "]">> }

\* what translation_manager.translate can return: None, or a non-blank string
Responses ==
  {NoneVal} \cup
  { r \in { Join(<<" ">>, ps) : ps \in Strings(Pieces, MaxPieces) } : strip(r) # <<>> }

\* _translate_text_boxes after its await, for any outcome of translate
TranslateTextBoxes ==
  /\ pc = "translation"
  /\ \E r \in Responses, raised \in BOOLEAN :
       TranslationOver(IF raised THEN <<>> ELSE r, raised)
  /\ UNCHANGED <<webVars, ocr, status_callback, request, erased, rendered, inpaint_raised,
                 render_raised, error, nruns, now, deepl_api_key, initialized,
                 translators, last_request_ts, request_count, quota_exceeded,
                 auth_failed, rate_limited, ncalls, nfaults>>

\* the run is at the await of translation_manager.translate
InitTS ==
  /\ TMInit /\ deepl_api_key = FALSE
  /\ pc = "translation"
  /\ status_callback = FALSE
  /\ sink = <<>>
  /\ text_boxes \in StageBoxes \ {<<>>}
  /\ translated_combined = <<>>
  /\ request \in RequestPool
  /\ box = 0
  /\ erased = {}
  /\ rendered = {}
  /\ inpaint_raised = {}
  /\ render_raised = {}
  /\ error = NoneVal
  /\ nruns = 1
  /\ ocr = NoMerge
  /\ WebIdle

SpecTS == InitTS /\ [][TranslateTextBoxes]_vars

(***************************************************************************)
(* The merging of nearby boxes, which extract_text ends with, on its own.  *)
(***************************************************************************)
\* boxes extract_text can have read, with their bounding boxes: the centres
\* are (0, 0), (20, 0), (39, 0) and (12, 16)
MergePool ==
  { [text |-> <<"a", "a">>, translated_text |-> <<>>, x1 |-> 0, y1 |-> 0, x2 |-> 1, y2 |-> 1],
    [text |-> <<"a", "?">>, translated_text |-> <<>>, x1 |-> 0, y1 |-> 0, x2 |-> 40, y2 |-> 1],
    [text |-> <<"?", "?">>, translated_text |-> <<>>, x1 |-> 38, y1 |-> 0, x2 |-> 40, y2 |-> 1],
    [text |-> <<"?">>, translated_text |-> <<>>, x1 |-> 10, y1 |-> 14, x2 |-> 14, y2 |-> 18] }

\* _merge_nearby_boxes is called with the boxes read and a threshold
InitMerge ==
  /\ TMInit /\ deepl_api_key = FALSE
  /\ pc = "ocr"
  /\ status_callback = FALSE
  /\ sink = <<>>
  /\ text_boxes = <<>>
  /\ translated_combined = <<>>
  /\ request \in RequestPool
  /\ box = 0
  /\ erased = {}
  /\ rendered = {}
  /\ inpaint_raised = {}
  /\ render_raised = {}
  /\ error = NoneVal
  /\ nruns = 1
  /\ \E boxes \in Strings(MergePool, MaxMergeBoxes) :
     \E threshold \in {DefaultThreshold, 2 * DefaultThreshold} :
       /\ \A i \in DOMAIN boxes : \A j \in DOMAIN boxes : i # j => boxes[i] # boxes[j]
       /\ ocr = [NoMerge EXCEPT !.boxes = boxes, !.threshold = threshold]
  /\ WebIdle

\* boxes = self._merge_nearby_boxes(boxes), on the boxes read and then on what
\* it returned
MergeNearbyBoxes ==
  /\ pc = "ocr"
  /\ ocr.raised = ""
  /\ ocr.merges < MaxMerges
  /\ LET r == _merge_nearby_boxes(ocr.boxes, ocr.threshold)
     IN ocr' = [ocr EXCEPT !.given = Append(@, ocr.boxes),
                           !.boxes = IF r.raised = "" THEN r.value ELSE @,
                           !.raised = r.raised,
                           !.merges = @ + 1]
  /\ UNCHANGED <<tmVars, webVars, pc, status_callback, sink, text_boxes,
                 translated_combined, request, box, erased, rendered, inpaint_raised,
                 render_raised, error, nruns>>

SpecMerge == InitMerge /\ [][MergeNearbyBoxes]_vars

(***************************************************************************)
(* The pipeline's properties.                                              *)
(***************************************************************************)
StageSeq ==
  <<"initialized", "ocr", "translation", "inpainting", "rendering", "completed">>

Stages(s) == [i \in 1..Len(s) |-> s[i].stage]

IsPrefix(s, t) == Len(s) <= Len(t) /\ s = SubSeq(t, 1, Len(s))

Emitted(stage) == \E i \in 1..Len(sink) : sink[i].stage = stage

\* render_text is called for the box
Wanted(b) == strip(text_boxes[b].translated_text) # <<>>

\* C1: the stages emitted to the progress sink of a run are a prefix of
\* initialized, ocr, translation, inpainting, rendering, completed, possibly
\* closed by one error; a completed run has emitted them all, a failed one
\* ends with the error; and a stage is only emitted once the work of the one
\* before it is over: translation once OCR has given its boxes, inpainting
\* once the translate call is over and every box has its translated text,
\* rendering once every box has been through inpainting, completed once the
\* rendering loop is over.
C1_StageOrder ==
  status_callback =>
    LET st == Stages(sink)
        n == Len(st)
    IN /\ \/ IsPrefix(st, StageSeq)
          \/ /\ n > 0 /\ st[n] = "error"
             /\ n - 1 < Len(StageSeq)
             /\ IsPrefix(SubSeq(st, 1, n - 1), StageSeq)
       /\ pc = "completed" => st = StageSeq
       /\ pc = "failed" <=> Emitted("error")
       /\ pc \in {"ocr", "translation", "inpainting", "rendering"} =>
            ~Emitted("completed")
       /\ Emitted("translation") => text_boxes # <<>>
       /\ Emitted("inpainting") =>
            /\ call = NoCall /\ tasks = <<>>
            /\ \A b \in 1..Len(text_boxes) : Truthy(text_boxes[b].translated_text)
       /\ Emitted("rendering") =>
            erased \cup inpaint_raised = 1..Len(text_boxes)
       /\ Emitted("completed") =>
            /\ box = 0
            /\ render_raised = {} =>
                 rendered = {b \in 1..Len(text_boxes) : Wanted(b)}

C1_Witness ==
  /\ status_callback /\ pc = "completed"
  /\ Len(text_boxes) = 2
  /\ Stages(sink) = StageSeq

\* C2: a failed run's processing error carries the name of the stage that
\* failed, which is always the OCR stage, the only one whose exceptions reach
\* process_manga_translation's except block.
C2_ErrorNamesStage ==
  pc = "failed" => Contains(LowerStr(error.message), <<"o", "c", "r">>)

\* the run that fails because OCR found no box
NoTextFound ==
  /\ pc = "failed"
  /\ error = ProcessingError(MsgProcessFailed \o MsgNoText \o <<".">>)

C2_Witness ==
  /\ NoTextFound /\ status_callback
  /\ Stages(sink) = <<"initialized", "ocr", "error">>
  /\ sink[3].message = MsgFailed \o MsgNoText \o <<".">>

EveryProviderFailed ==
  /\ pc = "translation" /\ call.status = "returned"
  /\ request[1] # request[2]
  /\ \A k \in 1..Len(tasks[1].results) :
       LET r == tasks[1].results[k]
       IN r.raised \/ r.value = <<>> \/ ~Truthy(r.value[1]) \/ strip(r.value[1]) = <<>>

\* C4: when every provider fails for the combined text, translate returns
\* None, _translate_text_boxes does not raise, and every box gets its own
\* original text as its translated text; the run goes on (the next stage's
\* step can always be taken) through inpainting and rendering to completed,
\* and no run fails once its translation stage has started.
C4_FallbackToOriginal ==
  /\ EveryProviderFailed => call.result = NoneVal /\ ENABLED TranslationDone
  /\ (pc \in {"inpainting", "rendering", "completed"} /\ translated_combined = NoneVal) =>
       \A b \in 1..Len(text_boxes) :
         text_boxes[b].translated_text = text_boxes[b].text
  /\ pc = "inpainting" => ENABLED InpaintBox
  /\ pc = "rendering" => ENABLED RenderBox
  /\ (pc = "completed" /\ status_callback) => Stages(sink) = StageSeq
  /\ pc = "failed" => text_boxes = <<>> /\ ~Emitted("translation")

C4_Witness ==
  /\ pc = "completed" /\ status_callback
  /\ translated_combined = NoneVal
  /\ Len(text_boxes) = 2
  /\ \A b \in 1..2 : text_boxes[b].translated_text = text_boxes[b].text

\* C5: in a completed run every box whose inpainting did not raise has been
\* erased, and every box with a translated text whose rendering did not raise
\* has been rendered.
C5_OtherBoxesProcessed ==
  pc = "completed" =>
    \A b \in 1..Len(text_boxes) :
      /\ b \notin inpaint_raised => b \in erased
      /\ (b \notin render_raised /\ Wanted(b)) => b \in rendered

\* render_text raised for the second box: the first box's rendering is lost
C5_Witness ==
  /\ pc = "completed"
  /\ Len(text_boxes) = 2
  /\ render_raised = {2}
  /\ Wanted(1) /\ 1 \notin rendered

(***************************************************************************)
(* The translation engine's properties.                                    *)
(***************************************************************************)
\* the forms under which a text is sent: as it is, or as modified for a retry
Forms(text) ==
  {text} \cup {_modify_invalid_translation_query(p, text) : p \in Providers}

\* what a service can answer to a text, or nothing
Answers(text) == UNION {RawOutputs(q) : q \in Forms(text)} \cup {<<>>}

\* the cleaned outputs a text can get
TranslationsOf(text) ==
  {_clean_translation_output(q, r) : q \in Forms(text), r \in Answers(text)}

\* C6: a call of translate_batch, or of a translator's translate, that
\* returns for a list of texts returns a list of the same length, whose item i
\* is derived from text i: the text itself, one of its cleaned outputs, or
\* None (translate_batch, every provider failed); this also when _translate
\* returns a shorter list (padded with '') or a longer one (cut).
C6_SameLengthSameOrder ==
  (call.status = "returned" /\ call.kind \in {"translate_batch", "direct"}) =>
    /\ Len(call.result) = Len(call.texts)
    /\ \A i \in 1..Len(call.texts) :
         \/ call.result[i] = call.texts[i]
         \/ call.result[i] \in TranslationsOf(call.texts[i])
         \/ call.kind = "translate_batch" /\ call.result[i] = NoneVal

\* a translator whose _translate returned one item for two queries
C6_Witness ==
  /\ call.status = "returned" /\ call.kind = "direct"
  /\ Len(call.texts) = 2
  /\ \A i \in 1..2 : is_valuable_text(call.texts[i])
  /\ Len(tasks[1].sent) = 1 /\ tasks[1].sent[1].p = "Custom"
  /\ call.result = <<Tr(call.texts[1]), <<>>>>

\* C7: a call of translate, translate_batch or a translator's translate whose
\* source and target are the same supported language returns at once with its
\* input, unchanged; no translator has been tried, no request sent, no
\* coroutine is left sleeping, and the request counts, the time of the last
\* request and the availability flags are what they were.
C7_SameLanguage ==
  [][ ( /\ CallIdle /\ call'.status # "idle"
        /\ call'.from_lang = call'.to_lang
        /\ call'.from_lang \in SUPPORTED_LANGUAGES ) =>
      ( /\ call'.status = "returned"
        /\ call'.result = IF call'.kind = "translate" THEN call'.texts[1]
                          ELSE call'.texts
        /\ \A i \in DOMAIN tasks' :
             /\ tasks'[i].pc = "done"
             /\ tasks'[i].tried = <<>> /\ tasks'[i].sent = <<>>
        /\ UNCHANGED <<now, last_request_ts, request_count, quota_exceeded,
                       auth_failed, rate_limited>> ) ]_vars

C7_Witness ==
  /\ call.status = "returned" /\ call.kind = "translate"
  /\ call.from_lang = "english" /\ call.to_lang = "english"
  /\ is_valuable_text(call.texts[1])
  /\ call.result = call.texts[1]
  /\ tasks[1].sent = <<>>

\* blank, fewer than 2 non-whitespace characters, or fewer than 30%
\* alphanumeric characters among the non-whitespace ones
Trivial(text) ==
  \/ strip(text) = <<>>
  \/ Len(RemoveWS(text)) < 2
  \/ 10 * AlnumCount(RemoveWS(text)) < 3 * Len(RemoveWS(text))

\* C8: no trivial text is in a request sent to a service; a call that returns
\* gives every trivial text back as it is, at its position; a call whose
\* texts are all trivial sends no request.
C8_TrivialUntouched ==
  /\ \A i \in DOMAIN tasks : \A k \in 1..Len(tasks[i].sent) :
       \A j \in 1..Len(tasks[i].sent[k].qs) : ~Trivial(tasks[i].sent[k].qs[j])
  /\ call.status = "returned" =>
       \A i \in 1..Len(call.texts) :
         Trivial(call.texts[i]) =>
           (IF call.kind = "translate" THEN call.result ELSE call.result[i])
             = call.texts[i]
  /\ (\A i \in 1..Len(call.texts) : Trivial(call.texts[i])) =>
       \A i \in DOMAIN tasks : tasks[i].sent = <<>>

\* translate gives None for a trivial text: no translator was available
C8_Witness ==
  /\ call.status = "returned" /\ call.kind = "translate"
  /\ call.texts[1] = <<"?", "?">>
  /\ call.from_lang = "japanese" /\ call.to_lang = "english"
  /\ call.result = NoneVal
  /\ tasks[1].tried = <<>>

\* position of a translator in self.translators
PositionOf(trs, p) == IndexOf(trs, p)

\* translator.translate gave a blank result, or raised
Blank(r) ==
  r.raised \/ r.value = <<>> \/ ~Truthy(r.value[1]) \/ strip(r.value[1]) = <<>>

\* the translator would be skipped with the flags as they are after the step
Skipped(p, from_lang, to_lang) ==
  \/ ~is_available(p, [qe |-> quota_exceeded', af |-> auth_failed',
                       rl |-> rate_limited'])
  \/ ~supports_languages(p, from_lang, to_lang)

\* the coroutines of TranslationManager.translate
ManagerTasks(ts) == {i \in DOMAIN ts : ts[i].kind = "manager"}

C9_State ==
  /\ ~initialized => translators = <<>>
  /\ initialized =>
       translators = (IF InSeq(translators, "DeepL") THEN <<"DeepL">> ELSE <<>>)
                       \o <<"Google">>
  /\ InSeq(translators, "DeepL") => deepl_api_key
  /\ \A i \in ManagerTasks(tasks) :
       LET tk == tasks[i] IN
       /\ \A a \in 1..Len(tk.tried) : \A b \in 1..Len(tk.tried) :
            a < b => /\ PositionOf(translators, tk.tried[a]) > 0
                     /\ PositionOf(translators, tk.tried[a])
                          < PositionOf(translators, tk.tried[b])
       /\ \A k \in 1..Len(tk.sent) :
            /\ InSeq(tk.tried, tk.sent[k].p)
            /\ supports_languages(tk.sent[k].p, tk.from_lang, tk.to_lang)
            /\ k < Len(tk.sent) =>
                 PositionOf(tk.tried, tk.sent[k].p)
                   <= PositionOf(tk.tried, tk.sent[k + 1].p)
       /\ Len(tk.results) \in {Len(tk.tried) - 1, Len(tk.tried)}
       /\ Len(tk.results) < Len(tk.tried) => tk.pc # "done"
       /\ \A k \in 1..(Len(tk.results) - 1) : Blank(tk.results[k])
       /\ (tk.pc # "done" /\ tk.results # <<>>) =>
            Blank(tk.results[Len(tk.results)])
       /\ (tk.pc = "done" /\ tk.tried # <<>>) =>
            IF Blank(tk.results[Len(tk.results)])
            THEN tk.result = NoneVal
            ELSE tk.result = tk.results[Len(tk.results)].value[1]

C9_Step ==
  /\ initialized => initialized' /\ translators' = translators
  /\ \A i \in ManagerTasks(tasks') :
       LET new == tasks'[i]
           oldtried == IF i \in DOMAIN tasks THEN tasks[i].tried ELSE <<>>
           wasdone == i \in DOMAIN tasks /\ tasks[i].pc = "done"
           last == IF new.tried = <<>> THEN 0
                   ELSE PositionOf(translators', new.tried[Len(new.tried)])
           lastold == IF oldtried = <<>> THEN 0
                      ELSE PositionOf(translators', oldtried[Len(oldtried)])
       IN /\ new.tried # oldtried =>
               /\ new.tried = Append(oldtried, translators'[last])
               /\ ~Skipped(translators'[last], new.from_lang, new.to_lang)
               /\ \A j \in (lastold + 1)..(last - 1) :
                    Skipped(translators'[j], new.from_lang, new.to_lang)
          /\ ( /\ new.pc = "done" /\ ~wasdone
               /\ new.result = NoneVal /\ new.raised = "" ) =>
               \A j \in (last + 1)..Len(translators') :
                 Skipped(translators'[j], new.from_lang, new.to_lang)

\* C9: self.translators is DeepL (only with a key) then Google, and no call
\* changes it once initialized; translate tries translators in that order,
\* each at most once, and sends requests only to a translator it has tried,
\* that supports the language pair and that was available when it was chosen;
\* the translators it passes over are unavailable or lack the pair; every
\* translator tried before the last gave a blank result or raised; translate
\* returns the first non-blank result and tries no translator after it, and
\* returns None only when no translator is left.
C9_FixedOrderFallback == []C9_State /\ [][C9_Step]_vars

\* DeepL gave nothing, Google's output is returned
C9_Witness ==
  /\ call.status = "returned" /\ call.kind = "translate"
  /\ tasks[1].tried = <<"DeepL", "Google">>
  /\ Blank(tasks[1].results[1])
  /\ ~Blank(tasks[1].results[2])
  /\ call.result = tasks[1].results[2].value[1]
  /\ tasks[1].sent[1].p = "DeepL" /\ tasks[1].sent[2].p = "Google"

\* a translate call from japanese to english for a text worth translating,
\* on a manager that has DeepL, whose key is still accepted
DeepLExpected ==
  /\ call.kind = "translate" /\ call.status # "idle"
  /\ call.from_lang = "japanese" /\ call.to_lang = "english"
  /\ is_valuable_text(call.texts[1])
  /\ InSeq(translators, "DeepL") /\ ~auth_failed

\* C10 as stated: DeepL is marked unavailable for one call only, so that every
\* such call tries DeepL first.
C10_AvailableNextCall ==
  (DeepLExpected /\ tasks[1].tried # <<>>) => tasks[1].tried[1] = "DeepL"

C10_State ==
  (DeepLExpected /\ tasks[1].pc = "done" /\ tasks[1].tried = <<"DeepL", "Google">>) =>
    /\ Blank(tasks[1].results[1])
    /\ tasks[1].result = IF Blank(tasks[1].results[2]) THEN NoneVal
                         ELSE tasks[1].results[2].value[1]

C10_Step ==
  /\ (quota_exceeded /\ ~quota_exceeded') =>
       /\ CallIdle
       /\ UNCHANGED <<now, deepl_api_key, initialized, translators,
                      last_request_ts, request_count, auth_failed, rate_limited,
                      tasks, call, ncalls, nfaults, runVars>>
  /\ \A i \in ManagerTasks(tasks') :
       LET oldtried == IF i \in DOMAIN tasks THEN tasks[i].tried ELSE <<>>
       IN (quota_exceeded /\ tasks'[i].tried # oldtried) =>
            tasks'[i].tried[Len(tasks'[i].tried)] # "DeepL"

\* C10, amended: when DeepL gives nothing and Google succeeds the result is
\* Google's; once DeepL has answered with its quota error, quota_exceeded
\* stays set, and no translate call tries DeepL, until reset_quota_status is
\* called between two calls.
C10_QuotaPersists == []C10_State /\ [][C10_Step]_vars

\* the call after the quota error: DeepL is passed over, Google answers
C10_Witness ==
  /\ DeepLExpected /\ call.status = "returned"
  /\ ncalls = 2
  /\ quota_exceeded
  /\ tasks[1].tried = <<"Google">>
  /\ call.result = Tr(call.texts[1])

\* the coroutine of translate is over for a valuable text and a pair of
\* distinct supported languages, and no translator gave it a non-blank result
Exhausted(tk) ==
  /\ tk.kind = "manager" /\ tk.pc = "done" /\ tk.raised = ""
  /\ is_valuable_text(tk.queries[1])
  /\ tk.from_lang # tk.to_lang
  /\ \A k \in 1..Len(tk.results) : Blank(tk.results[k])

\* the entry of text i in what the call returned
Entry(i) == IF call.kind = "translate" THEN call.result ELSE call.result[i]

\* C11 as stated: when every provider is exhausted for a valuable text, the
\* entry returned for it is the empty string.
C11_EmptyString ==
  (call.status = "returned" /\ call.kind \in {"translate", "translate_batch"}) =>
    \A i \in DOMAIN tasks : Exhausted(tasks[i]) => Entry(i) = <<>>

\* C11, amended: when every provider is exhausted for a valuable text,
\* translate returns None and translate_batch has None at the text's position,
\* and neither raises; a translator's own translate never has None in its
\* list, a text it got nothing for has the empty string.
C11_NoneWhenExhausted ==
  /\ \A i \in DOMAIN tasks : Exhausted(tasks[i]) => tasks[i].result = NoneVal
  /\ (call.status # "idle" /\ call.kind \in {"translate", "translate_batch"}
        /\ \E i \in DOMAIN tasks : Exhausted(tasks[i])) =>
       call.status # "raised"
  /\ (call.status = "returned" /\ call.kind \in {"translate", "translate_batch"}) =>
       \A i \in DOMAIN tasks : Exhausted(tasks[i]) => Entry(i) = NoneVal
  /\ (call.status = "returned" /\ call.kind = "direct") =>
       \A i \in 1..Len(call.result) : call.result[i] # NoneVal

\* DeepL and Google both gave nothing for a valuable text
C11_Witness ==
  /\ call.status = "returned" /\ call.kind = "translate"
  /\ Exhausted(tasks[1])
  /\ tasks[1].tried = <<"DeepL", "Google">>
  /\ call.result = NoneVal


(***************************************************************************)
(* C12: packing and unpacking by markers                                   *)
(***************************************************************************)
Orders(n) ==
  { f \in [1..n -> 1..n] : \A i \in 1..n : \A j \in 1..n : f[i] = f[j] => i = j }

\* the answer that keeps the marker of every sorted position once, in the
\* order perm, with the text ts[i] between [i-1] and [/i-1]
Kept(perm, ts) ==
  Join(<<" ">>, [k \in 1..Len(ts) |-> Marked(perm[k] - 1, ts[perm[k]])])

\* the translation stage is over
Distributed == pc = "inpainting" /\ translated_combined # <<>>

\* C12: when the answer keeps the marker of every box, with a translation that
\* is not blank between them, the box at sorted position i has exactly the
\* trimmed text found between [i] and [/i], and so never the translation of
\* another box
C12_MarkerRoundTrip ==
  Distributed =>
    LET n == Len(text_boxes)
        sorted_boxes == _sort_text_boxes_reading_order(text_boxes)
    IN \A ts \in [1..n -> {t \in MarkedTexts : strip(t) # <<>>}] :
         \A perm \in Orders(n) :
           translated_combined = Kept(perm, ts) =>
             \A i \in 1..n : text_boxes[sorted_boxes[i]].translated_text = strip(ts[i])

\* two boxes of which the second reads first, and an answer with both markers
C12_Witness ==
  /\ Distributed
  /\ Len(text_boxes) = 2
  /\ _sort_text_boxes_reading_order(text_boxes) = <<2, 1>>
  /\ translated_combined = Kept(<<2, 1>>, << <<" ", "x", " ">>, <<"y">> >>)
  /\ text_boxes[2].translated_text = <<"x">>
  /\ text_boxes[1].translated_text = <<"y">>

(***************************************************************************)
(* C13: every box ends the translation stage with a text                   *)
(***************************************************************************)
\* the 0-based position of box b in reading order
SortedPosition(b) ==
  (CHOOSE i \in 1..Len(text_boxes) :
     _sort_text_boxes_reading_order(text_boxes)[i] = b) - 1

Opening(i) == <<"[">> \o StrOfInt(i) \o <<"]">>
Closing(i) == <<"[", "/">> \o StrOfInt(i) \o <<"]">>

\* pat occurs exactly once in s
Once(s, pat) == Find(s, 1, pat) > 0 /\ Find(s, Find(s, 1, pat) + 1, pat) = 0

\* the answer has no text for the box at position i: translate raised or gave
\* None, a marker of i is missing, or only blanks stand between its markers
NothingFor(i) ==
  \/ translated_combined \in {<<>>, NoneVal}
  \/ Find(translated_combined, 1, Opening(i)) = 0
  \/ Find(translated_combined, 1, Closing(i)) = 0
  \/ /\ Once(translated_combined, Opening(i))
     /\ \E t \in MarkedTexts :
          strip(t) = <<>> /\ Find(translated_combined, 1, Marked(i, t)) > 0

\* C13: once the translation stage is over, whatever the answer was, every box
\* has a translated_text that is not blank, and a box the answer has no text
\* for has its own original text
C13_EveryBoxFilled ==
  pc = "inpainting" =>
    \A b \in 1..Len(text_boxes) :
      /\ strip(text_boxes[b].translated_text) # <<>>
      /\ NothingFor(SortedPosition(b)) =>
           text_boxes[b].translated_text = text_boxes[b].text

\* only blanks between the markers of the first box, a text for the second
C13_Witness ==
  /\ pc = "inpainting"
  /\ Len(text_boxes) = 2
  /\ translated_combined = Kept(<<1, 2>>, << <<" ">>, <<"y">> >>)
  /\ SortedPosition(1) = 0
  /\ text_boxes[1].translated_text = text_boxes[1].text
  /\ text_boxes[2].translated_text = <<"y">>

(***************************************************************************)
(* C14: an answer without markers                                          *)
(***************************************************************************)
\* the answer is a string that is not blank and holds no marker at all
NoMarkers ==
  /\ pc = "inpainting"
  /\ translated_combined # NoneVal
  /\ strip(translated_combined) # <<>>
  /\ \A k \in 1..Len(translated_combined) : translated_combined[k] # "["

\* the boxes as the stage got them
Untranslated == [b \in 1..Len(text_boxes) |-> [text_boxes[b] EXCEPT !.translated_text = <<>>]]

\* C14: an answer without markers is split on '.', its sentences go to the
\* boxes one after the other, and the boxes beyond the sentences have their
\* own original text
C14_SentenceSplitting ==
  NoMarkers => text_boxes = _simple_text_distribution(Untranslated, translated_combined)

(***************************************************************************)
(* C15: reading order                                                      *)
(***************************************************************************)
RightToLeft == {"japanese", "trad_chinese", "sim_chinese"}

\* box i reads before box j in the language: higher up, or as high and further
\* right (right to left) or further left (left to right)
ReadsBefore(boxes, i, j, language) ==
  \/ boxes[i].y1 < boxes[j].y1
  \/ /\ boxes[i].y1 = boxes[j].y1
     /\ IF language \in RightToLeft THEN boxes[i].x1 > boxes[j].x1
                                     ELSE boxes[i].x1 < boxes[j].x1
  \/ boxes[i].y1 = boxes[j].y1 /\ boxes[i].x1 = boxes[j].x1 /\ i < j

ReadingOrder(boxes, language) ==
  CHOOSE order \in [1..Len(boxes) -> 1..Len(boxes)] :
    \A i \in 1..Len(boxes) : \A j \in 1..Len(boxes) :
      i < j => ReadsBefore(boxes, order[i], order[j], language)

\* C15: the text sent for translation packs the boxes in reading order: by
\* ascending y1, and among boxes of equal y1 by descending x1 when the source
\* language is japanese, trad_chinese or sim_chinese, by ascending x1 otherwise
C15_ReadingOrder ==
  (pc = "translation" /\ call.kind = "translate") =>
    call.texts[1] =
      Join(<<" ">>, [i \in 1..Len(text_boxes) |->
                       Marked(i - 1, text_boxes[ReadingOrder(text_boxes, request[1])[i]].text)])

(***************************************************************************)
(* C16: the spacing of the outbound requests                               *)
(***************************************************************************)
\* C16: two consecutive outbound requests of one translate call to a service
\* of N requests per minute are at least 60/N seconds apart, also when the
\* call has several valuable texts
C16_MinInterval ==
  \A i \in DOMAIN tasks :
    \A k \in 1..(Len(tasks[i].sent) - 1) :
      LET a == tasks[i].sent[k]
          b == tasks[i].sent[k + 1]
      IN (a.p = b.p /\ _MAX_REQUESTS_PER_MINUTE(a.p) > 0) =>
           b.t - a.t >= min_interval(a.p)

(***************************************************************************)
(* C17: translate_batch and its semaphore                                  *)
(***************************************************************************)
Batch == call.kind = "translate_batch" /\ call.status # "idle"

\* the per-text translations that have started and are not over
Running(ts) == {i \in DOMAIN ts : ts[i].pc \notin {"waiting", "done"}}

\* at most max_concurrent translations run; a returned batch has one finished
\* translation per text, in the order of the texts
C17_State ==
  Batch =>
    /\ Cardinality(Running(tasks)) <= call.max_concurrent
    /\ call.status = "returned" /\ tasks # <<>> =>
         /\ Len(tasks) = Len(call.texts)
         /\ Len(call.result) = Len(call.texts)
         /\ \A i \in DOMAIN tasks :
              tasks[i].pc = "done" /\ tasks[i].queries = <<call.texts[i]>>

\* how far a per-text translation is: the services it has tried, the requests
\* it has sent, and where it stands between two requests
Rank(tk) ==
  IF tk.pc = "done" THEN 1000
  ELSE IF tk.pc = "waiting" THEN 0
  ELSE 100 * Len(tk.tried) + 10 * Len(tk.sent)
         + (CASE tk.pc = "calling" -> 1
              [] tk.pc = "retry_sleep" -> 2
              [] tk.pc = "sleeping" -> 3)

\* a translation of the batch can take a step, or time can pass for one
CanStep ==
  \E i \in DOMAIN tasks :
    \/ tasks[i].pc \in {"calling", "retry_sleep", "sleeping"}
    \/ tasks[i].pc = "waiting" /\ Cardinality(Running(tasks)) < call.max_concurrent

\* a running batch is never stuck, and a translation is never further than
\* a fixed number of services and requests
C17_Progress ==
  (Batch /\ call.status = "running") =>
    /\ CanStep
    /\ \A i \in DOMAIN tasks :
         Len(tasks[i].tried) < 10 /\ Len(tasks[i].sent) < 10

\* a waiting translation starts only when fewer than max_concurrent run, a
\* translation that is over never runs again, and a step of a translation
\* takes it further
C17_Step ==
  (Batch /\ Batch' /\ Len(tasks') = Len(tasks)) =>
    \A i \in DOMAIN tasks :
      /\ (tasks[i].pc = "waiting" /\ tasks'[i].pc # "waiting") =>
           Cardinality(Running(tasks)) < call.max_concurrent
      /\ tasks[i].pc = "done" => tasks'[i] = tasks[i]
      /\ tasks'[i] # tasks[i] => Rank(tasks'[i]) > Rank(tasks[i])
      /\ (tasks' = tasks /\ now' = now) => call' = call

\* C17: translate_batch never has more than max_concurrent per-text
\* translations in flight, the others wait and start only once a running one
\* is over, and every text ends up processed, once: while the batch runs some
\* translation can always step, every step takes a translation further along
\* a bounded course, and the batch returns with one finished translation per
\* text
C17_BoundedConcurrency ==
  /\ []C17_State
  /\ []C17_Progress
  /\ [][C17_Step]_vars

\* two texts and a semaphore of one: the second translation has waited for the
\* first and both are over
C17_Witness ==
  /\ Batch /\ call.status = "returned" /\ call.max_concurrent = 1
  /\ Len(tasks) = 2
  /\ tasks[1].sent # <<>> /\ tasks[2].sent # <<>>
  /\ tasks[1].sent[Len(tasks[1].sent)].t <= tasks[2].sent[1].t

(***************************************************************************)
(* C18: the rate-limit state under concurrent translate calls              *)
(***************************************************************************)
\* the last-request timestamp a coroutine asleep in _ratelimit_sleep has
\* measured its sleep against
MeasuredAgainst(tk) == tk.wake - min_interval(tk.p)

Limited(tk) == tk.p # "" /\ _MAX_REQUESTS_PER_MINUTE(tk.p) > 0

\* C18: two translate calls running concurrently on one service never both
\* pass the rate-limit check against the same last-request timestamp, and
\* their outbound requests are at least 60/N seconds apart
C18_AtomicRateLimit ==
  \A i \in DOMAIN tasks : \A j \in DOMAIN tasks :
    (i < j /\ call.kind = "translate_batch") =>
      /\ (/\ tasks[i].pc = "sleeping" /\ tasks[j].pc = "sleeping"
          /\ tasks[i].p = tasks[j].p /\ Limited(tasks[i])) =>
           MeasuredAgainst(tasks[i]) # MeasuredAgainst(tasks[j])
      /\ \A a \in 1..Len(tasks[i].sent) : \A b \in 1..Len(tasks[j].sent) :
           LET ra == tasks[i].sent[a]
               rb == tasks[j].sent[b]
           IN (ra.p = rb.p /\ _MAX_REQUESTS_PER_MINUTE(ra.p) > 0) =>
                \/ ra.t - rb.t >= min_interval(ra.p)
                \/ rb.t - ra.t >= min_interval(ra.p)

(***************************************************************************)
(* C19: nearby boxes are grouped transitively                              *)
(***************************************************************************)
\* the bounding box of m holds that of b
Encloses(m, b) == m.x1 <= b.x1 /\ m.y1 <= b.y1 /\ m.x2 >= b.x2 /\ m.y2 >= b.y2

\* C19: when box A is within the threshold of B and B within the threshold of
\* C, the merge returns a list in which one box holds A, B and C, also when A
\* and C are further apart than the threshold
C19_TransitiveGroups ==
  ocr.merges = 1 =>
    LET boxes == ocr.given[1] IN
    \A a \in DOMAIN boxes : \A b \in DOMAIN boxes : \A c \in DOMAIN boxes :
      (/\ a # b /\ b # c /\ a # c
       /\ _boxes_nearby(boxes[a], boxes[b], ocr.threshold)
       /\ _boxes_nearby(boxes[b], boxes[c], ocr.threshold)) =>
        /\ ocr.raised = ""
        /\ Len(ocr.boxes) <= Len(boxes) - 2
        /\ \E k \in DOMAIN ocr.boxes :
             /\ Encloses(ocr.boxes[k], boxes[a])
             /\ Encloses(ocr.boxes[k], boxes[b])
             /\ Encloses(ocr.boxes[k], boxes[c])

(***************************************************************************)
(* C20: merging is idempotent                                              *)
(***************************************************************************)
\* C20: whatever the boxes and the threshold, the merge returns a list, and
\* merging that list again with the same threshold returns the same list
C20_Idempotent ==
  /\ ocr.merges >= 1 => ocr.raised = ""
  /\ ocr.merges = 2 => ocr.boxes = ocr.given[2]

(***************************************************************************)
(* C21: the merge partitions its boxes                                     *)
(***************************************************************************)
Least(S) == CHOOSE x \in S : \A y \in S : x <= y
Greatest(S) == CHOOSE x \in S : \A y \in S : x >= y

\* the boxes that g puts into group k, in the order given
MembersOf(g, k) == SelectSeq([i \in 1..Len(g) |-> i], LAMBDA i : g[i] = k)

\* m is what the boxes at the indices members collapse to: the box itself for
\* one member, else the union of the rectangles and the texts joined by a space
CollapseOf(m, boxes, members) ==
  IF Len(members) = 1 THEN m = boxes[members[1]]
  ELSE /\ m.x1 = Least({boxes[members[i]].x1 : i \in DOMAIN members})
       /\ m.y1 = Least({boxes[members[i]].y1 : i \in DOMAIN members})
       /\ m.x2 = Greatest({boxes[members[i]].x2 : i \in DOMAIN members})
       /\ m.y2 = Greatest({boxes[members[i]].y2 : i \in DOMAIN members})
       /\ m.text = Join(<<" ">>, [i \in DOMAIN members |-> boxes[members[i]].text])

\* C21: the merge returns, every box given belongs to exactly one group, and
\* every group has collapsed to one box: the union of its members' rectangles
\* with their texts joined by a space in the order given, or the box itself
\* when it is alone
C21_MergePartitions ==
  ocr.merges = 1 =>
    /\ ocr.raised = ""
    /\ LET boxes == ocr.given[1]
           g == [1..Len(boxes) -> 1..Len(ocr.boxes)]
       IN \/ boxes = <<>> /\ ocr.boxes = <<>>
          \/ \E f \in g :
               \A k \in DOMAIN ocr.boxes :
                 /\ MembersOf(f, k) # <<>>
                 /\ CollapseOf(ocr.boxes[k], boxes, MembersOf(f, k))

(***************************************************************************)
(* C24: the retry loop is bounded                                          *)
(***************************************************************************)
\* the requests a coroutine has sent to the service p
RequestsTo(tk, p) == Cardinality({k \in 1..Len(tk.sent) : tk.sent[k].p = p})

\* the texts one raw call of the coroutine sends a request for
PerRawCall(tk) ==
  IF tk.kind = "manager" THEN 1
  ELSE Cardinality({i \in 1..Len(tk.queries) : is_valuable_text(tk.queries[i])})

\* a translate call has made at most 1 + _INVALID_REPEAT_COUNT raw calls of a
\* service, and it repeats only while an output is judged invalid
C24_State ==
  \A i \in DOMAIN tasks : \A p \in Providers :
    /\ RequestsTo(tasks[i], p) <= (1 + _INVALID_REPEAT_COUNT(p)) * PerRawCall(tasks[i])
    /\ tasks[i].p = p => tasks[i].attempt <= _INVALID_REPEAT_COUNT(p)
    /\ (tasks[i].p = p /\ tasks[i].pc = "retry_sleep") =>
         tasks[i].untranslated_indices # <<>>

\* the raw call that raises (Google's rate limit) is the last one of its
\* translate call
C24_Step ==
  (~rate_limited /\ rate_limited' /\ Len(tasks') = Len(tasks)) =>
    \A i \in DOMAIN tasks :
      tasks[i].pc = "calling" /\ tasks'[i] # tasks[i] =>
        /\ tasks'[i].pc # "retry_sleep"
        /\ RequestsTo(tasks'[i], "Google") = RequestsTo(tasks[i], "Google")

\* C24: one translate call of a translator makes at most
\* 1 + _INVALID_REPEAT_COUNT raw calls of its service (two for Google, one for
\* DeepL), repeats only while an output is judged invalid, and stops at once
\* when the raw call raises
C24_BoundedRetries == []C24_State /\ [][C24_Step]_vars

\* Google has been called twice for one text and the call is over
C24_Witness ==
  /\ call.status = "returned" /\ call.kind = "translate"
  /\ tasks[1].pc = "done"
  /\ RequestsTo(tasks[1], "Google") = 1 + Google_INVALID_REPEAT_COUNT
  /\ tasks[1].result # NoneVal

(***************************************************************************)
(* C27: language codes are normalized before any provider call: a          *)
(* translate request given a legacy code (JPN, ENG, KOR, VIN, CHI, CHT,    *)
(* the defaults of TranslationManager.translate among them) is not         *)
(* rejected for its languages, as the same request given the canonical     *)
(* names is not.                                                           *)
(***************************************************************************)
NamesLanguage(lang_code) == normalize_language_code(lang_code) \in SUPPORTED_LANGUAGES

C27_LegacyCodesAccepted ==
  (NamesLanguage(call.from_lang) /\ NamesLanguage(call.to_lang)) =>
    /\ call.raised # "ValueError"
    /\ \A i \in DOMAIN tasks : tasks[i].raised # "ValueError"

(***************************************************************************)
(* C28: in the retry loop of BaseTranslator.translate a retry replaces     *)
(* only the outputs of the entries judged invalid on the attempt before:   *)
(* an entry that is no longer among untranslated_indices keeps its output  *)
(* through every later attempt, and its query is the one it was given,     *)
(* never one rewritten by _modify_invalid_translation_query.               *)
(***************************************************************************)
InRetryLoop(tk) == tk.translations # <<>> /\ tk.p # ""

JudgedValid(tk) ==
  {j \in 1..Len(tk.translations) : ~InSeq(tk.untranslated_indices, j)}

C28_QueriesKept ==
  \A i \in DOMAIN tasks : InRetryLoop(tasks[i]) =>
    \A j \in JudgedValid(tasks[i]) :
      tasks[i].queries_to_translate[j] = tasks[i].queries[tasks[i].query_indices[j]]

C28_Step ==
  ncalls' = ncalls =>
    \A i \in DOMAIN tasks : (i \in DOMAIN tasks' /\ InRetryLoop(tasks[i])) =>
      \A j \in JudgedValid(tasks[i]) :
        \* the loop goes on
        /\ (InRetryLoop(tasks'[i]) /\ tasks'[i].p = tasks[i].p) =>
             /\ j \in JudgedValid(tasks'[i])
             /\ tasks'[i].translations[j] = tasks[i].translations[j]
             /\ tasks'[i].queries_to_translate[j] = tasks[i].queries_to_translate[j]
        \* the translator returns: the entry's output is the kept one, cleaned
        /\ Len(tasks'[i].results) = Len(tasks[i].results) + 1 =>
             LET ret == tasks'[i].results[Len(tasks'[i].results)].value
             IN ret[tasks[i].query_indices[j]] =
                  _clean_translation_output(tasks[i].queries_to_translate[j],
                                            tasks[i].translations[j])

C28_ValidEntriesKept == []C28_QueriesKept /\ [][C28_Step]_vars

\* a second attempt was made for two queries of which one was judged valid:
\* the valid one was sent as it was, the other one rewritten
C28_Witness ==
  \E i \in DOMAIN tasks :
    /\ tasks[i].pc = "done" /\ tasks[i].kind = "direct" /\ tasks[i].raised = ""
    /\ Len(tasks[i].queries) = 2 /\ Len(tasks[i].sent) = 4
    /\ tasks[i].sent[3].qs = tasks[i].sent[1].qs
    /\ tasks[i].sent[4].qs # tasks[i].sent[2].qs

(***************************************************************************)
(* services/render/font_manager.py.  A font is a language and a size.  The *)
(* metrics PIL reports are those of a fixed-pitch face: a CJK glyph is as  *)
(* wide as the font size, a Latin one half of it, and a line is as high as *)
(* the font size.                                                          *)
(***************************************************************************)
font_size_min == 6
font_size_max == 30
CJKFloor == 12

_is_cjk_language(language) ==
  language \in {"japanese", "sim_chinese", "trad_chinese", "korean"}

\* FontManager.measure_text: (width, height)
measure_text(text, size, language) ==
  IF _is_cjk_language(language) THEN <<Len(text) * size, size>>
  ELSE <<Len(text) * (size \div 2), size>>

\* text.split()
SplitWords(text) == SelectSeq(Split(text, <<" ">>), LAMBDA x : x # <<>>)

\* FontManager._wrap_cjk_text: the loop from text[i] on
RECURSIVE WrapChars(_, _, _, _, _, _, _)
WrapChars(text, i, lines, current_line, target_width, size, language) ==
  IF i > Len(text)
  THEN IF current_line # <<>> THEN Append(lines, current_line) ELSE lines
  ELSE LET test_line == Append(current_line, text[i])
       IN IF measure_text(test_line, size, language)[1] <= target_width
          THEN WrapChars(text, i + 1, lines, test_line, target_width, size, language)
          ELSE WrapChars(text, i + 1,
                         IF current_line # <<>> THEN Append(lines, current_line)
                         ELSE lines,
                         <<text[i]>>, target_width, size, language)

\* FontManager._wrap_cjk_text
_wrap_cjk_text(text, target_width, size, language) ==
  WrapChars(text, 1, <<>>, <<>>, target_width, size, language)

\* FontManager._break_long_word_with_hyphen: the loop from word[i] on
RECURSIVE BreakChars(_, _, _, _, _, _, _)
BreakChars(word, i, parts, current_part, max_width, size, language) ==
  IF i > Len(word)
  THEN IF current_part # <<>> THEN Append(parts, current_part) ELSE parts
  ELSE LET test_part == Append(current_part, word[i])
       IN IF measure_text(Append(test_part, "-"), size, language)[1] <= max_width
          THEN BreakChars(word, i + 1, parts, test_part, max_width, size, language)
          ELSE BreakChars(word, i + 1,
                          IF current_part # <<>>
                          THEN Append(parts, Append(current_part, "-")) ELSE parts,
                          <<word[i]>>, max_width, size, language)

\* FontManager._break_long_word_with_hyphen
_break_long_word_with_hyphen(word, max_width, size, language) ==
  LET parts == BreakChars(word, 1, <<>>, <<>>, max_width, size, language)
  IN IF parts # <<>> THEN parts ELSE <<word>>

\* the bottom-line rule _wrap_latin_text ends with, were it to drop the
\* last word instead of giving it a line
ShortLastWordDropped(lines) ==
  IF Len(lines) > 1
  THEN LET last_line == lines[Len(lines)]
           ws == SplitWords(last_line)
           last_word == ws[Len(ws)]
       IN IF Len(last_word) <= 10 /\ " " \in CharSet(last_line)
          THEN [lines EXCEPT ![Len(lines)] = Join(<<" ">>, SubSeq(ws, 1, Len(ws) - 1))]
          ELSE lines
  ELSE lines

\* FontManager._wrap_latin_text: the bottom-line rule for a short last word
ShortLastWord(lines) ==
  IF Len(lines) > 1
  THEN LET last_line == lines[Len(lines)]
           ws == SplitWords(last_line)
           last_word == ws[Len(ws)]
       IN IF Len(last_word) <= 10 /\ " " \in CharSet(last_line)
          THEN LET rest == Join(<<" ">>, SubSeq(ws, 1, Len(ws) - 1))
                   front == SubSeq(lines, 1, Len(lines) - 1)
               IN IF strip(rest) = <<>> THEN Append(front, last_word)
                  ELSE front \o <<rest, last_word>>
          ELSE lines
  ELSE lines

\* FontManager._wrap_latin_text: the loop from words[i] on
RECURSIVE WrapWords(_, _, _, _, _, _, _)
WrapWords(words, i, lines, current_line, target_width, size, language) ==
  IF i > Len(words)
  THEN IF current_line # <<>> THEN Append(lines, current_line) ELSE lines
  ELSE LET word == words[i]
           test_line == strip(current_line \o <<" ">> \o word)
           lines1 == IF current_line # <<>> THEN Append(lines, current_line)
                     ELSE lines
           broken == _break_long_word_with_hyphen(word, target_width, size, language)
       IN IF measure_text(test_line, size, language)[1] <= target_width
          THEN WrapWords(words, i + 1, lines, test_line, target_width, size, language)
          ELSE IF measure_text(word, size, language)[1] > target_width
               THEN WrapWords(words, i + 1,
                              lines1 \o SubSeq(broken, 1, Len(broken) - 1),
                              broken[Len(broken)], target_width, size, language)
               ELSE WrapWords(words, i + 1, lines1, word, target_width, size,
                              language)

\* FontManager._wrap_latin_text
_wrap_latin_text(text, target_width, size, language) ==
  ShortLastWord(WrapWords(SplitWords(text), 1, <<>>, <<>>, target_width, size,
                          language))

\* FontManager.wrap_text_for_size
wrap_text_for_size(text, target_width, size, language) ==
  IF strip(text) = <<>> THEN <<>>
  ELSE IF _is_cjk_language(language)
       THEN _wrap_cjk_text(text, target_width, size, language)
       ELSE _wrap_latin_text(text, target_width, size, language)

\* the height find_optimal_font_size_multiline works out for the text wrapped
\* at one size: line_height, line_spacing, total_height
total_height(text, target_width, size, language) ==
  LET lines == wrap_text_for_size(text, target_width, size, language)
      line_height == measure_text(<<"A">>, size, language)[2]
      line_spacing == IF _is_cjk_language(language)
                      THEN Max(8, (4 * line_height) \div 10)
                      ELSE Max(5, (4 * line_height) \div 10)
  IN Len(lines) * line_height + (Len(lines) - 1) * line_spacing

\* the while loop, were it to keep the sizes at which the text overflows
RECURSIVE BinarySearchOverflowing(_, _, _, _, _, _, _)
BinarySearchOverflowing(left, right, best_size, text, target_width, target_height, language) ==
  IF left > right THEN best_size
  ELSE LET mid_size == (left + right) \div 2
       IN IF total_height(text, target_width, mid_size, language) >= target_height
          THEN BinarySearchOverflowing(mid_size + 1, right, mid_size, text,
                                       target_width, target_height, language)
          ELSE BinarySearchOverflowing(left, mid_size - 1, best_size, text,
                                       target_width, target_height, language)

\* FontManager.find_optimal_font_size_multiline: the while loop
RECURSIVE BinarySearch(_, _, _, _, _, _, _)
BinarySearch(left, right, best_size, text, target_width, target_height, language) ==
  IF left > right THEN best_size
  ELSE LET mid_size == (left + right) \div 2
       IN IF total_height(text, target_width, mid_size, language) <= target_height
          THEN BinarySearch(mid_size + 1, right, mid_size, text, target_width,
                            target_height, language)
          ELSE BinarySearch(left, mid_size - 1, best_size, text, target_width,
                            target_height, language)

\* FontManager.find_optimal_font_size_multiline, max_lines being None:
\* best_size is set before the floor is raised for a CJK language
find_optimal_font_size_multiline(text, target_width, target_height, language) ==
  LET min_size == IF _is_cjk_language(language) THEN Max(font_size_min, CJKFloor)
                  ELSE font_size_min
  IN BinarySearch(min_size, font_size_max, font_size_min, text, target_width,
                  target_height, language)

\* BoundingBox.width, BoundingBox.height
width(bbox) == bbox.x2 - bbox.x1
height(bbox) == bbox.y2 - bbox.y1

\* LayoutCalculator.calculate_optimal_font_size; settings has no
\* default_font_size, which a blank text asks for
calculate_optimal_font_size(text, bbox, language, direction) ==
  IF strip(text) = <<>> THEN [raised |-> "AttributeError", value |-> 0]
  ELSE LET swap == direction = "ttb" /\ ~_is_cjk_language(language)
           target_width == IF swap THEN height(bbox) - 4 ELSE width(bbox) - 4
           target_height == IF swap THEN width(bbox) - 4 ELSE height(bbox) - 4
           found == find_optimal_font_size_multiline(text, target_width,
                                                     target_height, language)
           optimal_size == IF _is_cjk_language(language) THEN (11 * found) \div 10
                           ELSE found
       IN [raised |-> "",
           value |-> Max(font_size_min, Min(optimal_size, font_size_max))]

(***************************************************************************)
(* services/render/layout_calculator.py and text_renderer.py: the columns  *)
(* of vertical text and the resolution of overlaps.                        *)
(***************************************************************************)
\* for i in range(0, len(text), chars_per_column): text[i:i + chars_per_column]
Columns(text, chars_per_column) ==
  [k \in 1..((Len(text) + chars_per_column - 1) \div chars_per_column) |->
     SubSeq(text, (k - 1) * chars_per_column + 1,
            Min(k * chars_per_column, Len(text)))]

\* calculate_vertical_text_layout, were it to keep every column
VerticalLayoutUnguarded(text, bbox, size, language) ==
  IF ~_is_cjk_language(language)
  THEN << [text |-> text, x |-> bbox.x1, y |-> bbox.y1] >>
  ELSE LET char_width == measure_text(<<"A">>, size, language)[1]
           char_height == measure_text(<<"A">>, size, language)[2]
           columns == Columns(text, Max(1, (height(bbox) - 8) \div char_height))
           column_spacing == IF Len(columns) > 1
                             THEN Min(char_width + 10,
                                      (width(bbox) - 8) \div Len(columns))
                             ELSE char_width
       IN [k \in 1..Len(columns) |->
             [text |-> columns[k],
              x |-> bbox.x2 - 4 - char_width - (k - 1) * column_spacing,
              y |-> bbox.y1 + 4]]

\* LayoutCalculator.calculate_vertical_text_layout: (column_text, x, y)
calculate_vertical_text_layout(text, bbox, size, language) ==
  IF ~_is_cjk_language(language)
  THEN << [text |-> text, x |-> bbox.x1, y |-> bbox.y1] >>
  ELSE LET char_width == measure_text(<<"A">>, size, language)[1]
           char_height == measure_text(<<"A">>, size, language)[2]
           available_height == height(bbox) - 8
           chars_per_column == Max(1, available_height \div char_height)
           columns == Columns(text, chars_per_column)
           available_width == width(bbox) - 8
           column_spacing == IF Len(columns) > 1
                             THEN Min(char_width + 10, available_width \div Len(columns))
                             ELSE char_width
           start_x == bbox.x2 - 4 - char_width
           column_positions ==
             [k \in 1..Len(columns) |->
                [text |-> columns[k], x |-> start_x - (k - 1) * column_spacing,
                 y |-> bbox.y1 + 4]]
       IN SelectSeq(column_positions, LAMBDA c : c.x >= bbox.x1)

\* TextRenderer._render_vertical_text: the columns drawn, each with its x and
\* the number of its characters the inner loop went through
_render_vertical_text(text, bbox, size, language) ==
  LET char_width == measure_text(<<"A">>, size, language)[1]
      char_height == measure_text(<<"A">>, size, language)[2]
      available_height == height(bbox) - 8
      chars_per_column == Max(1, available_height \div char_height)
      columns == Columns(text, chars_per_column)
      available_width == width(bbox) - 8
      base_spacing == IF language = "japanese" THEN char_width + 20
                      ELSE IF language \in {"sim_chinese", "trad_chinese"}
                           THEN char_width + 14
                           ELSE char_width + 10
      column_spacing == IF Len(columns) > 1
                        THEN Min(base_spacing, available_width \div Len(columns))
                        ELSE base_spacing
      text_block_width == Len(columns) * column_spacing
      start_x == bbox.x1 + width(bbox) - (width(bbox) - text_block_width) \div 2
                   - char_width
      x(k) == start_x - (k - 1) * column_spacing
      char_spacing == IF language = "japanese" THEN char_height + 2
                      ELSE char_height - 1
      \* the loop over a column breaks once y + char_height > bbox.y2
      through(column) ==
        LET stop == {n \in 1..Len(column) :
                       bbox.y1 + 4 + n * char_spacing + char_height > bbox.y2}
        IN IF stop = {} THEN Len(column)
           ELSE CHOOSE n \in stop : \A m \in stop : n <= m
      \* the loop over the columns breaks at the first x < bbox.x1
      before == {k \in 1..Len(columns) : \A j \in 1..k : x(j) >= bbox.x1}
  IN [k \in 1..Cardinality(before) |->
        [text |-> columns[k], x |-> x(k), y |-> bbox.y1 + 4,
         drawn |-> through(columns[k])]]

\* LayoutCalculator._boxes_overlap
_boxes_overlap(bbox1, bbox2) ==
  ~(bbox1.x2 < bbox2.x1 \/ bbox2.x2 < bbox1.x1 \/
    bbox1.y2 < bbox2.y1 \/ bbox2.y2 < bbox1.y1)

\* _resolve_overlap, were it to move the box to the edge of the other one
ResolveOverlapToEdge(bbox1, bbox2, image_width, image_height) ==
  LET movements == << <<0, bbox2.y2 - bbox1.y1>>, <<0, bbox2.y1 - bbox1.y2>>,
                      <<bbox2.x2 - bbox1.x1, 0>>, <<bbox2.x1 - bbox1.x2, 0>> >>
      moved(m) == [x1 |-> bbox1.x1 + m[1], y1 |-> bbox1.y1 + m[2],
                   x2 |-> bbox1.x2 + m[1], y2 |-> bbox1.y2 + m[2]]
      feasible == {k \in 1..4 : /\ 0 <= moved(movements[k]).x1
                                /\ moved(movements[k]).x2 <= image_width
                                /\ 0 <= moved(movements[k]).y1
                                /\ moved(movements[k]).y2 <= image_height}
  IN IF feasible = {} THEN bbox1
     ELSE moved(movements[CHOOSE k \in feasible : \A j \in feasible : k <= j])

\* LayoutCalculator._resolve_overlap
_resolve_overlap(bbox1, bbox2, image_width, image_height) ==
  LET movements == << <<0, bbox2.y2 - bbox1.y1 + 5>>,
                      <<0, bbox2.y1 - bbox1.y2 - 5>>,
                      <<bbox2.x2 - bbox1.x1 + 5, 0>>,
                      <<bbox2.x1 - bbox1.x2 - 5, 0>> >>
      moved(m) == [x1 |-> bbox1.x1 + m[1], y1 |-> bbox1.y1 + m[2],
                   x2 |-> bbox1.x2 + m[1], y2 |-> bbox1.y2 + m[2]]
      feasible == {k \in 1..4 : /\ 0 <= moved(movements[k]).x1
                                /\ moved(movements[k]).x2 <= image_width
                                /\ 0 <= moved(movements[k]).y1
                                /\ moved(movements[k]).y2 <= image_height}
  IN IF feasible = {} THEN bbox1
     ELSE moved(movements[CHOOSE k \in feasible : \A j \in feasible : k <= j])

\* optimize_text_layout: the loop over optimized_boxes from the j-th on
RECURSIVE Adjust(_, _, _, _, _, _, _)
Adjust(heap, optimized_boxes, j, bbox, moves, image_width, image_height) ==
  IF j > Len(optimized_boxes) THEN [bbox |-> bbox, moves |-> moves]
  ELSE LET existing_box == heap[optimized_boxes[j]]
           to == _resolve_overlap(bbox, existing_box.bbox, image_width, image_height)
       IN IF _boxes_overlap(bbox, existing_box.bbox)
          THEN Adjust(heap, optimized_boxes, j + 1, to,
                      Append(moves, [from |-> bbox, other |-> existing_box.bbox,
                                     to |-> to]),
                      image_width, image_height)
          ELSE Adjust(heap, optimized_boxes, j + 1, bbox, moves, image_width,
                      image_height)

\* optimize_text_layout: the loop over text_boxes from boxes[i] on
RECURSIVE Optimize(_, _, _, _, _, _, _)
Optimize(heap, boxes, i, optimized_boxes, moves, image_width, image_height) ==
  IF i > Len(boxes)
  THEN [heap |-> heap, value |-> optimized_boxes, moves |-> moves]
  ELSE LET text_box == heap[boxes[i]]
           adjusted == Adjust(heap, optimized_boxes, 1, text_box.bbox, <<>>,
                              image_width, image_height)
       IN Optimize(Append(heap, [text_box EXCEPT !.bbox = adjusted.bbox]), boxes,
                   i + 1, Append(optimized_boxes, Len(heap) + 1),
                   moves \o adjusted.moves, image_width, image_height)

\* LayoutCalculator.optimize_text_layout(text_boxes, ...) on references into heap,
\* the TextBox objects: text_box.copy() is a new object, and adjusted_box.bbox
\* is assigned on the copy.  moves are the calls of _resolve_overlap made.
optimize_text_layout(heap, boxes, image_width, image_height) ==
  IF Len(boxes) <= 1
  THEN [heap |-> heap, value |-> boxes, moves |-> <<>>]
  ELSE Optimize(heap, boxes, 1, <<>>, <<>>, image_width, image_height)

(***************************************************************************)
(* The font and layout code on its own: calls of wrap_text_for_size,       *)
(* calculate_optimal_font_size, calculate_vertical_text_layout,            *)
(* _render_vertical_text and optimize_text_layout.  The calls of           *)
(* calculate_optimal_font_size for one text are kept side by side.         *)
(***************************************************************************)
LongWord == Repeat(<<"a">>, 11)

LongTexts ==
  {LongWord, <<"a", " ">> \o LongWord,
   LongWord \o <<" ", "a", " ">> \o LongWord,
   <<"a", "a", "a", "a", " ", "a">>, <<"a", "a", " ", "a", " ", "a">>}

LayoutTexts == Strings({"a", " ", "-"}, MaxWrapLen) \cup LongTexts

SizedTexts == Strings({"a", " "}, MaxSizedLen) \cup LongTexts

ColumnTexts == {Repeat(<<"a">>, n) : n \in 0..MaxColumnChars} \cup {<<"a", " ", "a">>}

FontSizes == {font_size_min, CJKFloor, 20, font_size_max}

Sides == {10, 30, 100}

BBox(x1, y1, x2, y2) == [x1 |-> x1, y1 |-> y1, x2 |-> x2, y2 |-> y2]

\* the boxes with their corners on a grid
GridBoxes(grid) ==
  {BBox(x1, y1, x2, y2) : x1 \in grid, y1 \in grid, x2 \in grid, y2 \in grid}

OverlapBoxes ==
  {b \in GridBoxes({0, 10, 30}) : b.x1 < b.x2 /\ b.y1 < b.y2}

WrapTextForSize ==
  /\ layout = <<>>
  /\ \E text \in LayoutTexts, target_width \in {0} \cup Sides, size \in FontSizes,
        language \in {"english", "japanese"} :
       layout' = << [op |-> "wrap_text_for_size", text |-> text,
                     target_width |-> target_width, size |-> size,
                     language |-> language,
                     value |-> wrap_text_for_size(text, target_width, size, language)] >>
  /\ UNCHANGED <<tmVars, pipelineVars, processing_status, requests, background_tasks>>

CalculateOptimalFontSize ==
  /\ Len(layout) < MaxLayouts
  /\ \E text \in SizedTexts, w \in Sides, h \in Sides,
        language \in {"english", "japanese"}, direction \in {"ltr", "ttb"} :
       /\ layout # <<>> =>
            /\ layout[1].op = "calculate_optimal_font_size"
            /\ layout[1].text = text
            /\ layout[1].language = language
            /\ layout[1].direction = direction
       /\ LET r == calculate_optimal_font_size(text, BBox(0, 0, w, h), language,
                                               direction)
          IN layout' = Append(layout,
                              [op |-> "calculate_optimal_font_size", text |-> text,
                               bbox |-> BBox(0, 0, w, h), language |-> language,
                               direction |-> direction, raised |-> r.raised,
                               value |-> r.value])
  /\ UNCHANGED <<tmVars, pipelineVars, processing_status, requests, background_tasks>>

CalculateVerticalTextLayout ==
  /\ layout = <<>>
  /\ \E text \in ColumnTexts, x1 \in {0, 10}, w \in Sides, h \in Sides,
        size \in FontSizes,
        language \in {"japanese", "sim_chinese", "korean", "english"} :
       layout' = << [op |-> "calculate_vertical_text_layout", text |-> text,
                     bbox |-> BBox(x1, 0, x1 + w, h), size |-> size,
                     language |-> language,
                     value |-> calculate_vertical_text_layout(
                                 text, BBox(x1, 0, x1 + w, h), size, language)] >>
  /\ UNCHANGED <<tmVars, pipelineVars, processing_status, requests, background_tasks>>

\* render_text draws vertically for the languages whose direction is ttb
RenderVerticalText ==
  /\ layout = <<>>
  /\ \E text \in ColumnTexts, x1 \in {0, 10}, w \in Sides, h \in Sides,
        size \in FontSizes, language \in {"japanese", "sim_chinese", "trad_chinese"} :
       layout' = << [op |-> "_render_vertical_text", text |-> text,
                     bbox |-> BBox(x1, 0, x1 + w, h), size |-> size,
                     language |-> language,
                     value |-> _render_vertical_text(
                                 text, BBox(x1, 0, x1 + w, h), size, language)] >>
  /\ UNCHANGED <<tmVars, pipelineVars, processing_status, requests, background_tasks>>

OptimizeTextLayout ==
  /\ layout = <<>>
  /\ \E bboxes \in Strings(OverlapBoxes, MaxLayoutBoxes),
        image \in {<<30, 30>>, <<60, 30>>, <<60, 60>>} :
       LET heap == [i \in 1..Len(bboxes) |-> [text |-> <<"a">>, bbox |-> bboxes[i]]]
           r == optimize_text_layout(heap, [i \in 1..Len(bboxes) |-> i],
                                     image[1], image[2])
       IN layout' = << [op |-> "optimize_text_layout", given |-> heap,
                        image_width |-> image[1], image_height |-> image[2],
                        heap |-> r.heap, value |-> r.value, moves |-> r.moves] >>
  /\ UNCHANGED <<tmVars, pipelineVars, processing_status, requests, background_tasks>>

InitLayout == TMInit /\ deepl_api_key = FALSE /\ RunIdle

NextLayout ==
  \/ WrapTextForSize
  \/ CalculateOptimalFontSize
  \/ CalculateVerticalTextLayout
  \/ RenderVerticalText
  \/ OptimizeTextLayout

SpecLayout == InitLayout /\ [][NextLayout]_vars

(***************************************************************************)
(* C29: text wrapping never loses, duplicates or reorders content.  The    *)
(* lines of a CJK text, put end to end, are the text.  The lines of any    *)
(* other text read as the words of the text, in their order, once the      *)
(* fragments of a broken word, each a line ending with a hyphen, are put   *)
(* together again; so also after the rule for a short last word.           *)
(***************************************************************************)
\* the words of the lines, each with whether it is a line of its own
Tokens(lines) ==
  Concat([k \in 1..Len(lines) |->
            LET ws == SplitWords(lines[k])
            IN [n \in 1..Len(ws) |-> [word |-> ws[n], alone |-> Len(ws) = 1]]])

\* the tokens from the k-th on read as the words from the j-th on, part being
\* the fragments of the j-th word already read
RECURSIVE ReadAs(_, _, _, _, _)
ReadAs(tokens, k, words, j, part) ==
  IF k > Len(tokens) THEN j > Len(words) /\ part = <<>>
  ELSE /\ j <= Len(words)
       /\ \/ /\ part \o tokens[k].word = words[j]
             /\ ReadAs(tokens, k + 1, words, j + 1, <<>>)
          \/ /\ tokens[k].alone
             /\ Len(tokens[k].word) > 1
             /\ tokens[k].word[Len(tokens[k].word)] = "-"
             /\ LET more == part \o SubSeq(tokens[k].word, 1, Len(tokens[k].word) - 1)
                IN /\ StartsWithAt(words[j], 1, more) /\ more # words[j]
                   /\ ReadAs(tokens, k + 1, words, j, more)

C29_WrapKeepsContent ==
  \A k \in DOMAIN layout : layout[k].op = "wrap_text_for_size" =>
    LET c == layout[k] IN
    /\ Concat(_wrap_cjk_text(c.text, c.target_width, c.size, "japanese")) = c.text
    /\ (_is_cjk_language(c.language) /\ strip(c.text) # <<>>) =>
         Concat(c.value) = c.text
    /\ ~_is_cjk_language(c.language) =>
         ReadAs(Tokens(c.value), 1, SplitWords(c.text), 1, <<>>)

\* a word was broken with hyphens and the last line gave up its short last word
C29_Witness ==
  /\ layout # <<>> /\ layout[1].op = "wrap_text_for_size"
  /\ layout[1].language = "english"
  /\ "-" \notin CharSet(layout[1].text)
  /\ Len(layout[1].value) >= 3
  /\ "-" \in CharSet(layout[1].value[1])
  /\ Len(SplitWords(layout[1].text)) = 2
  /\ Len(layout[1].value[Len(layout[1].value)]) = 1

(***************************************************************************)
(* C23: the vertical layout of a CJK text never produces, and the vertical *)
(* renderer never draws, a column whose left x is less than bbox.x1, for   *)
(* every text, box and glyph size; a column that would start left of the   *)
(* box is left out whole, the columns kept being whole columns of the      *)
(* text, at the x the layout gives them.                                   *)
(***************************************************************************)
\* the columns the text falls into for a box and a glyph size
ColumnsOf(c) == Columns(c.text, Max(1, (height(c.bbox) - 8) \div c.size))

C23_ColumnsInsideLeftEdge ==
  \A k \in DOMAIN layout :
    LET c == layout[k] IN
    /\ (c.op = "calculate_vertical_text_layout" /\ _is_cjk_language(c.language)) =>
         /\ Len(c.value) <= Len(ColumnsOf(c))
         /\ \A n \in DOMAIN c.value :
              /\ c.value[n].x >= c.bbox.x1
              /\ \E m \in n..Len(ColumnsOf(c)) : c.value[n].text = ColumnsOf(c)[m]
    /\ c.op = "_render_vertical_text" =>
         /\ Len(c.value) <= Len(ColumnsOf(c))
         /\ \A n \in DOMAIN c.value :
              /\ c.value[n].x >= c.bbox.x1
              /\ c.value[n].text = ColumnsOf(c)[n]

\* a layout of several columns, one more of which fell left of the box
C23_Witness ==
  /\ layout # <<>> /\ layout[1].op = "calculate_vertical_text_layout"
  /\ _is_cjk_language(layout[1].language)
  /\ Len(layout[1].value) >= 2
  /\ Len(layout[1].value) < Len(ColumnsOf(layout[1]))

(***************************************************************************)
(* C26: overlap resolution tries, in this order, the box pushed down below *)
(* the conflicting box, up above it, right of it and left of it, and takes *)
(* the first that lies inside the image.  The moved box keeps its width    *)
(* and height, lies within [0, image_width] x [0, image_height] and no     *)
(* longer overlaps the conflicting box; when none of the four lies inside  *)
(* the image the box stays where it was.  The boxes given are not          *)
(* modified.                                                               *)
(***************************************************************************)
Shifted(b, dx, dy) == BBox(b.x1 + dx, b.y1 + dy, b.x2 + dx, b.y2 + dy)

\* down, up, right, left of the other box, 5 pixels clear of it
Pushed(b, other) ==
  << Shifted(b, 0, (other.y2 + 5) - b.y1), Shifted(b, 0, (other.y1 - 5) - b.y2),
     Shifted(b, (other.x2 + 5) - b.x1, 0), Shifted(b, (other.x1 - 5) - b.x2, 0) >>

Inside(b, image_width, image_height) ==
  0 <= b.x1 /\ b.x2 <= image_width /\ 0 <= b.y1 /\ b.y2 <= image_height

C26_OverlapResolution ==
  \A k \in DOMAIN layout : layout[k].op = "optimize_text_layout" =>
    LET c == layout[k] IN
    /\ \A m \in DOMAIN c.moves :
         LET mv == c.moves[m]
             tries == Pushed(mv.from, mv.other)
             ok == {n \in 1..4 : Inside(tries[n], c.image_width, c.image_height)}
         IN /\ ok = {} => mv.to = mv.from
            /\ ok # {} =>
                 /\ \E n \in ok : mv.to = tries[n] /\ \A n2 \in ok : n <= n2
                 /\ width(mv.to) = width(mv.from) /\ height(mv.to) = height(mv.from)
                 /\ Inside(mv.to, c.image_width, c.image_height)
                 /\ ~_boxes_overlap(mv.to, mv.other)
    \* the objects given are as they were, and as many boxes come back
    /\ SubSeq(c.heap, 1, Len(c.given)) = c.given
    /\ Len(c.value) = Len(c.given)
    /\ \A i \in DOMAIN c.value :
         /\ c.heap[c.value[i]].text = c.given[i].text
         /\ width(c.heap[c.value[i]].bbox) = width(c.given[i].bbox)
         /\ height(c.heap[c.value[i]].bbox) = height(c.given[i].bbox)

\* a box could go neither down nor up and went to the side, and another one
\* could go nowhere
C26_Witness ==
  /\ layout # <<>> /\ layout[1].op = "optimize_text_layout"
  /\ \E m \in DOMAIN layout[1].moves :
       /\ layout[1].moves[m].to # layout[1].moves[m].from
       /\ layout[1].moves[m].to.y1 = layout[1].moves[m].from.y1
  /\ \E m \in DOMAIN layout[1].moves : layout[1].moves[m].to = layout[1].moves[m].from

(***************************************************************************)
(* C22: the font-size search is monotonic in the box: for a fixed text and *)
(* language, increasing the area of the bounding box never decreases the   *)
(* font size chosen.                                                       *)
(***************************************************************************)
Sized(k) == layout[k].op = "calculate_optimal_font_size" /\ layout[k].raised = ""

Area(bbox) == width(bbox) * height(bbox)

C22_MonotonicInArea ==
  \A j \in DOMAIN layout : \A k \in DOMAIN layout :
    (Sized(j) /\ Sized(k) /\ Area(layout[j].bbox) < Area(layout[k].bbox)) =>
      layout[j].value <= layout[k].value

\* C22, amended: for a fixed text, language and direction, a box that is no
\* narrower and no lower than another one never gets a smaller font size
C22_MonotonicInSides ==
  \A j \in DOMAIN layout : \A k \in DOMAIN layout :
    (/\ Sized(j) /\ Sized(k)
     /\ width(layout[j].bbox) <= width(layout[k].bbox)
     /\ height(layout[j].bbox) <= height(layout[k].bbox)) =>
      layout[j].value <= layout[k].value

\* the box grew and so did the font size
C22_Witness ==
  /\ Len(layout) = 2 /\ Sized(1) /\ Sized(2)
  /\ width(layout[1].bbox) < width(layout[2].bbox)
  /\ height(layout[1].bbox) <= height(layout[2].bbox)
  /\ layout[1].value < layout[2].value

(***************************************************************************)
(* C25: for a text that is not blank, the font size that                   *)
(* calculate_optimal_font_size hands to the renderer is the largest size   *)
(* of the allowed range at which the wrapped text fits the usable height   *)
(* of the box (its lines and the spacing between them take no more than    *)
(* the height less the padding), or the least size of the range when no    *)
(* size fits; for a CJK language the range starts at the raised floor, 12, *)
(* and the size is never below it.                                         *)
(***************************************************************************)
\* settings.text_directions
text_directions(language) ==
  IF language \in {"japanese", "sim_chinese", "trad_chinese"} THEN "ttb" ELSE "ltr"

AllowedSizes(language) ==
  (IF _is_cjk_language(language) THEN CJKFloor ELSE font_size_min)..font_size_max

FittingSizes(c) ==
  {s \in AllowedSizes(c.language) :
     total_height(c.text, width(c.bbox) - 4, s, c.language) <= height(c.bbox) - 4}

C25_LargestFittingSize ==
  \A k \in DOMAIN layout :
    (Sized(k) /\ layout[k].direction = text_directions(layout[k].language)) =>
      /\ layout[k].value = IF FittingSizes(layout[k]) = {}
                           THEN Least(AllowedSizes(layout[k].language))
                           ELSE Greatest(FittingSizes(layout[k]))
      /\ _is_cjk_language(layout[k].language) => layout[k].value >= CJKFloor

(***************************************************************************)
(* routes/routers/translation.py: the translate endpoint, the status store *)
(* processing_status and the cleanup tasks.  A request is at the await it  *)
(* is suspended at: the reading of the file, then the stage of the run.    *)
(***************************************************************************)
\* the statuses status_callback writes for a session id that is set
Written(store, session_id, stage) ==
  IF session_id # "" THEN [store EXCEPT ![session_id] = stage] ELSE store

\* POST /translate arrives: validate_image_file, then await file.read()
translate_manga ==
  /\ Len(requests) < MaxRequests
  /\ \E session_id \in Sessions \cup {""}, valid \in BOOLEAN :
       requests' = Append(requests,
                          [session_id |-> session_id,
                           stage |-> IF valid THEN "reading" ELSE "rejected"])
  /\ UNCHANGED <<tmVars, pipelineVars, layout, processing_status, background_tasks>>

\* the file is read: validate_image_content and the languages, the first
\* entry of processing_status, and the run up to its await of _extract_text
ReadFile(r) ==
  /\ requests[r].stage = "reading"
  /\ \E valid \in BOOLEAN :
       IF valid
       THEN /\ requests' = [requests EXCEPT ![r].stage = "ocr"]
            /\ processing_status' =
                 Written(Written(processing_status, requests[r].session_id,
                                 "initialized"),
                         requests[r].session_id, "ocr")
       ELSE /\ requests' = [requests EXCEPT ![r].stage = "rejected"]
            /\ UNCHANGED processing_status
  /\ UNCHANGED <<tmVars, pipelineVars, layout, background_tasks>>

\* _extract_text is over: the run goes on to the translation, or it raises
\* and process_manga_translation reports the error stage (HTTP 422)
ExtractText(r) ==
  /\ requests[r].stage = "ocr"
  /\ \E found \in BOOLEAN :
       LET stage == IF found THEN "translation" ELSE "error"
       IN /\ requests' = [requests EXCEPT ![r].stage = stage]
          /\ processing_status' =
               Written(processing_status, requests[r].session_id, stage)
  /\ UNCHANGED <<tmVars, pipelineVars, layout, background_tasks>>

\* the translation or the inpainting is over: the next stage is reported
StatusCallback(r) ==
  /\ requests[r].stage \in {"translation", "inpainting"}
  /\ LET stage == IF requests[r].stage = "translation" THEN "inpainting"
                  ELSE "rendering"
     IN /\ requests' = [requests EXCEPT ![r].stage = stage]
        /\ processing_status' =
             Written(processing_status, requests[r].session_id, stage)
  /\ UNCHANGED <<tmVars, pipelineVars, layout, background_tasks>>

\* the rendering is over: the completed stage is reported, the image is
\* encoded and cleanup_status is added to the background tasks, or the
\* encoding fails (HTTP 500)
Complete(r) ==
  /\ requests[r].stage = "rendering"
  /\ processing_status' =
       Written(processing_status, requests[r].session_id, "completed")
  /\ \E encoded \in BOOLEAN :
       IF encoded
       THEN /\ requests' = [requests EXCEPT ![r].stage = "completed"]
            /\ background_tasks' =
                 IF requests[r].session_id # ""
                 THEN Append(background_tasks,
                             [session_id |-> requests[r].session_id,
                              state |-> "sleeping"])
                 ELSE background_tasks
       ELSE /\ requests' = [requests EXCEPT ![r].stage = "encode_failed"]
            /\ UNCHANGED background_tasks
  /\ UNCHANGED <<tmVars, pipelineVars, layout>>

\* cleanup_status(session_id, delay=300) once its sleep is over
cleanup_status(k) ==
  /\ background_tasks[k].state = "sleeping"
  /\ background_tasks' = [background_tasks EXCEPT ![k].state = "done"]
  /\ processing_status' =
       [processing_status EXCEPT ![background_tasks[k].session_id] = Absent]
  /\ UNCHANGED <<tmVars, pipelineVars, layout, requests>>

InitStatus == TMInit /\ deepl_api_key = FALSE /\ RunIdle

NextStatus ==
  \/ translate_manga
  \/ \E r \in DOMAIN requests : ReadFile(r)
  \/ \E r \in DOMAIN requests : ExtractText(r)
  \/ \E r \in DOMAIN requests : StatusCallback(r)
  \/ \E r \in DOMAIN requests : Complete(r)
  \/ \E k \in DOMAIN background_tasks : cleanup_status(k)

\* the event loop runs every coroutine that can go on
FairStatus ==
  /\ \A r \in 1..MaxRequests :
       WF_vars(r \in DOMAIN requests /\
               (ReadFile(r) \/ ExtractText(r) \/ StatusCallback(r) \/ Complete(r)))
  /\ \A k \in 1..MaxRequests :
       WF_vars(k \in DOMAIN background_tasks /\ cleanup_status(k))

SpecStatus == InitStatus /\ [][NextStatus]_vars /\ FairStatus

(***************************************************************************)
(* C30: every entry written to processing_status for a session id is       *)
(* removed in the end, whether the run for that session completed or       *)
(* failed; no entry stays in the store for ever.                           *)
(***************************************************************************)
C30_EveryEntryRemoved ==
  \A s \in Sessions : (processing_status[s] # Absent) ~> (processing_status[s] = Absent)

=========================================================================
